---- MODULE Spec2Model ----
(***************************************************************************)
(* Model of the abstract multi-cloud Terraform provider.                   *)
(*                                                                         *)
(* Every resource kind implements Create / Read / Update / Delete as a     *)
(* straight-line handler that switches on the "type" attribute (the        *)
(* backend tag) and issues a fixed series of SDK calls.  Each handler is   *)
(* rendered here as a list of instructions (one per SDK call, with the     *)
(* error handling the handler applies to it), and one interpreter runs     *)
(* the instructions against an abstract backend: a set of existing         *)
(* sub-resources plus the long-running operations started on them.         *)
(***************************************************************************)
EXTENDS Integers, Sequences, FiniteSets, TLC

(***************************************************************************)
(* Bounds of the model.                                                    *)
(***************************************************************************)
\* lifecycle calls the host issues in one run
MaxCalls == 3
\* backend calls that may fail for a transient reason in one run
MaxFaults == 1

(***************************************************************************)
(* Strings.  A string is a sequence of chunks; text that comes from the    *)
(* user is held one character per chunk, so that case folding and suffix   *)
(* tests are computed character by character.                              *)
(***************************************************************************)
Empty == << >>

K(s) == << s >>

\* <<upper case, lower case>> of the letters the inputs are written in
CasePairs ==
    {<<"A", "a">>, <<"C", "c">>, <<"E", "e">>, <<"G", "g">>, <<"I", "i">>, <<"M", "m">>,
     <<"N", "n">>, <<"O", "o">>, <<"P", "p">>, <<"R", "r">>, <<"S", "s">>, <<"U", "u">>,
     <<"W", "w">>, <<"Z", "z">>}

LowerChar(c) ==
    IF \E q \in CasePairs : q[1] = c THEN (CHOOSE q \in CasePairs : q[1] = c)[2] ELSE c

UpperChar(c) ==
    IF \E q \in CasePairs : q[2] = c THEN (CHOOSE q \in CasePairs : q[2] = c)[1] ELSE c

ToLower(s) == [i \in 1..Len(s) |-> LowerChar(s[i])]

ToUpper(s) == [i \in 1..Len(s) |-> UpperChar(s[i])]

EqualFold(s, t) == ToLower(s) = ToLower(t)

HasSuffix(s, suf) ==
    /\ Len(s) >= Len(suf)
    /\ SubSeq(s, Len(s) - Len(suf) + 1, Len(s)) = suf

\* the backend tags the handlers switch on
AWS == <<"a", "w", "s">>
AZURE == <<"a", "z", "u", "r", "e">>
GCP == <<"g", "c", "p">>

\* tags a configuration may carry: the three clouds, one in another case, an unknown one
Tags == {AWS, AZURE, GCP, <<"A", "W", "S">>, <<"o", "c", "i">>}

Kinds ==
    {"bucket", "network", "instance", "function", "cluster", "registry", "secret", "dns",
     "queue", "database", "container", "lb"}

NAME1 == <<"n", "1">>
REGION1 == <<"r", "1">>
CIDR1 == <<"c", "1">>
ZONE1 == <<"z", "1">>

RG == K("abstract-rg")
DNSRG == K("abstract-dns-rg")

(***************************************************************************)
(* Plans (desired state), provider configuration, stored records.          *)
(***************************************************************************)
\* kinds whose schema leaves "name" optional
OptionalName == {"network", "database"}

\* kinds whose handlers read environment variables or files
EnvKinds == {"function", "cluster", "secret", "database"}

\* values of the "engine" attribute of a database
MYSQL == <<"m", "y", "s", "q", "l">>
POSTGRES == <<"p", "o", "s", "t", "g", "r", "e", "s">>

Plans(kind) ==
    [name : IF kind \in OptionalName THEN {Empty, NAME1} ELSE {NAME1},
     type : Tags,
     region : IF kind \in {"function", "instance"} THEN {Empty, REGION1} ELSE {Empty},
     cidr : IF kind = "network" THEN {Empty, CIDR1} ELSE {Empty},
     flag : IF kind \in {"bucket", "queue"} THEN BOOLEAN ELSE {FALSE},
     image : IF kind \in {"instance", "container"} THEN {K("img")} ELSE {Empty},
     zone : IF kind = "dns" THEN {ZONE1} ELSE {Empty},
     size : {Empty},
     engine : IF kind = "database" THEN {MYSQL, POSTGRES} ELSE {Empty}]

Configs(kind) ==
    [mode : IF kind \in EnvKinds THEN {"full", "noenv", "nil"} ELSE {"full", "nil"},
     region : IF kind \in {"function", "network"} THEN {Empty, REGION1} ELSE {Empty}]

BaseRec ==
    [id |-> Empty, name |-> Empty, type |-> Empty, region |-> Empty,
     account |-> Empty, rgroup |-> Empty, subnet_id |-> Empty,
     gateway_id |-> Empty, plan |-> Empty, zone |-> Empty, size |-> Empty,
     engine |-> Empty]

(***************************************************************************)
(* Backend sub-resources: <<sub-resource kind, scope, name>>.              *)
(***************************************************************************)
T(sub, scope, name) == << sub, scope, name >>

NoTarget == T("none", Empty, Empty)

\* identifier the backend assigns to the g-th resource it makes
BackendId(prefix, g) == << prefix, ToString(g) >>

\* Azure resource id of a sub-resource
ArmId(rg, sub, name) == K("/resourceGroups/") \o rg \o K("/" \o sub \o "/") \o name

Arn(sub, name) == K("arn:" \o sub \o ":") \o name

(***************************************************************************)
(* Instructions.                                                           *)
(*   eff    what the call does to its target:                              *)
(*            "create"  make it, failing if it exists                      *)
(*            "new"     make a resource under a backend-assigned id        *)
(*            "upsert"  create-or-update                                   *)
(*            "get"     look it up                                         *)
(*            "modify"  change it in place                                 *)
(*            "destroy" remove it                                          *)
(*            "rpc"     a call that touches no sub-resource                *)
(*            "abort"   no call: the handler gives up before calling       *)
(*            "set"     no call: resp.State.Set                            *)
(*   async  the backend answers with a long-running operation              *)
(*   wait   how the handler waits for it: "none", "sdk" (PollUntilDone)    *)
(*          or "loop" (the hand-written Operations.Get loop)               *)
(*   onErr  "fail"       AddError and return                               *)
(*          "return"     return without a diagnostic                       *)
(*          "report"     AddError and go on                                *)
(*          "ignore"     go on                                             *)
(*          "remove"     RemoveResource and return                         *)
(*          "removeFail" AddError, RemoveResource and return               *)
(*          "exists"     go on if the error is "already exists", else fail *)
(*   skip   instructions jumped over when the call succeeds                *)
(*   valid  FALSE when the arguments are ones the backend rejects          *)
(*   main   the call provisions the sub-resource the record's id names     *)
(*   idem   a destroy or a lookup that the backend answers with success    *)
(*          when the target is gone (Azure Resource Manager deletes; the   *)
(*          calls that report a missing target in the body of the answer)  *)
(*   arg    the machine size the call asks for                             *)
(***************************************************************************)
Ins(call, eff, tgt, async, wait, onErr, skip) ==
    [call |-> call, eff |-> eff, tgt |-> tgt, async |-> async, wait |-> wait,
     onErr |-> onErr, skip |-> skip, valid |-> TRUE, main |-> FALSE, idem |-> FALSE,
     arg |-> Empty, rec |-> BaseRec]

Do(call, eff, tgt, onErr) == Ins(call, eff, tgt, FALSE, "none", onErr, 0)

Abort(call, onErr) == Do(call, "abort", NoTarget, onErr)

\* marks the call that provisions the terminal sub-resource
Main(ins) == [ins EXCEPT !.main = TRUE]

\* a call the backend answers without an error when its target is missing
Idem(ins) == [ins EXCEPT !.idem = TRUE]

\* the call carries a machine size
Arg(a, ins) == [ins EXCEPT !.arg = a]

\* the backend accepts the call's arguments only when cond holds
Valid(cond, ins) == [ins EXCEPT !.valid = cond]

\* the record written without its id
SetStateNoId(rec) ==
    [Do("State.Set", "set", NoTarget, "fail") EXCEPT !.rec = [rec EXCEPT !.id = Empty]]

SetState(rec) == [Do("State.Set", "set", NoTarget, "fail") EXCEPT !.rec = rec]

\* the handler computes the name or size it will send: no backend call
Norm(what) == Do(what, "norm", NoTarget, "fail")

\* the instruction only when the condition holds
When(cond, ins) == IF cond THEN << ins >> ELSE << >>

\* the nil test written as the Read handlers write it: return, no diagnostic
NilCheckSilent(c, onErr) == When(c.mode = "nil", Abort("nil client", "return"))

\* if r.client == nil { ...; return }
NilCheck(c, onErr) == When(c.mode = "nil", Abort("nil client", onErr))

\* a branch that calls through the client without testing it: a nil client panics
NilDeref(c) == When(c.mode = "nil", Abort("nil pointer dereference", "fail"))

\* a required environment variable or file
EnvCheck(c, what) == When(c.mode = "noenv", Abort(what, "fail"))

\* default: resp.Diagnostics.AddError("unsupported cloud", ...)
Unsupported == << Abort("unsupported cloud", "fail") >>

Or(s, dflt) == IF s = Empty THEN dflt ELSE s

(***************************************************************************)
(* abstract_bucket                                                         *)
(***************************************************************************)
\* acctName = strings.ToLower(name); if len(acctName) > 24 { acctName = acctName[:24] }
AccountNameLimit == 24

AccountName(name) ==
    LET lower == ToLower(name)
    IN  IF Len(lower) > AccountNameLimit THEN SubSeq(lower, 1, AccountNameLimit) ELSE lower

\* r.azureLoc after "if r.azureLoc == "" && region != "" { r.azureLoc = region }"
AzureLoc(p, c) == IF c.region = Empty /\ p.region # Empty THEN p.region ELSE c.region

BucketCreate(p, c, g) ==
    CASE p.type = AWS ->
           NilDeref(c)
           \o << Main(Do("s3.CreateBucket", "create", T("s3bucket", Empty, p.name), "fail")) >>
           \o When(p.flag, Do("s3.PutBucketVersioning", "modify", T("s3bucket", Empty, p.name), "fail"))
           \o << SetState([BaseRec EXCEPT !.id = p.name, !.name = p.name, !.type = p.type,
                                          !.region = p.region]) >>
      [] p.type = AZURE ->
           NilCheck(c, "fail")
           \o << Do("rg.CreateOrUpdate", "upsert", T("rg", Empty, RG), "fail"),
                 Norm("acctName"),
                 Ins("accounts.BeginCreate", "upsert", T("account", RG, AccountName(p.name)),
                     TRUE, "sdk", "fail", 0),
                 Do("accounts.ListKeys", "get", T("account", RG, AccountName(p.name)), "fail"),
                 Main(Do("blob.CreateContainer", "create",
                         T("container", AccountName(p.name), p.name), "fail")),
                 SetState([BaseRec EXCEPT !.id = p.name, !.name = p.name, !.type = p.type,
                                          !.region = AzureLoc(p, c),
                                          !.account = AccountName(p.name), !.rgroup = RG]) >>
      [] p.type = GCP ->
           NilCheck(c, "fail")
           \o << Main(Do("storage.Bucket.Create", "create", T("gcsbucket", Empty, p.name), "fail")),
                 SetState([BaseRec EXCEPT !.id = p.name, !.name = p.name, !.type = p.type,
                                          !.region = Or(p.region, c.region)]) >>
      [] OTHER -> Unsupported

\* a Read that sets the versioning of the bucket it finds
BucketReadHealing(s, c) ==
    CASE s.type = AWS ->
           NilDeref(c)
           \o << Do("s3.HeadBucket", "get", T("s3bucket", Empty, s.id), "removeFail"),
                 Do("s3.PutBucketVersioning", "modify", T("s3bucket", Empty, s.id), "fail") >>
      [] OTHER -> << >>

BucketRead(s, c) ==
    CASE s.type = AWS ->
           NilDeref(c)
           \o << Do("s3.HeadBucket", "get", T("s3bucket", Empty, s.id), "removeFail") >>
      [] s.type = AZURE ->
           NilCheck(c, "fail")
           \o << Do("accounts.ListKeys", "get", T("account", s.rgroup, s.account), "removeFail"),
                 Do("blob.GetProperties", "get", T("container", s.account, s.id), "removeFail") >>
      [] s.type = GCP ->
           NilCheck(c, "fail")
           \o << Do("storage.Bucket.Attrs", "get", T("gcsbucket", Empty, s.id), "removeFail") >>
      [] OTHER -> << >>

BucketUpdate(p, s, c) ==
    CASE p.type = AWS ->
           NilDeref(c)
           \o << Do("s3.PutBucketVersioning", "modify", T("s3bucket", Empty, p.name), "fail") >>
      [] p.type = GCP ->
           NilCheck(c, "fail")
           \o << Do("storage.Bucket.Update", "modify", T("gcsbucket", Empty, p.name), "fail") >>
      [] OTHER -> << >>

BucketDelete(s, c) ==
    CASE s.type = AWS ->
           NilDeref(c)
           \o << Do("s3.DeleteBucket", "destroy", T("s3bucket", Empty, s.id), "report") >>
      [] s.type = AZURE ->
           NilCheck(c, "fail")
           \o << Do("accounts.ListKeys", "get", T("account", s.rgroup, s.account), "fail"),
                 Do("blob.DeleteContainer", "destroy", T("container", s.account, s.id), "report"),
                 Idem(Do("accounts.Delete", "destroy", T("account", s.rgroup, s.account), "report")) >>
      [] s.type = GCP ->
           NilCheck(c, "fail")
           \o << Do("storage.Bucket.Delete", "destroy", T("gcsbucket", Empty, s.id), "report") >>
      [] OTHER -> << >>

(***************************************************************************)
(* abstract_network                                                        *)
(***************************************************************************)
DefaultGcpRegion == K("us-central1")

NetworkCreate(p, c, g) ==
    CASE p.type = AWS ->
           NilCheck(c, "fail")
           \o << Main(Do("ec2.CreateVpc", "new", T("vpc", Empty, BackendId("vpc-", g)), "fail")) >>
           \o When(p.name # Empty,
                   Do("ec2.CreateTags", "modify", T("vpc", Empty, BackendId("vpc-", g)), "fail"))
           \o << Do("ec2.DescribeAvailabilityZones", "get", T("az", Empty, K("zones")), "fail"),
                 Do("ec2.CreateSubnet", "new", T("subnet", Empty, BackendId("subnet-", g)), "fail"),
                 Do("ec2.CreateInternetGateway", "new", T("igw", Empty, BackendId("igw-", g)), "fail"),
                 Do("ec2.AttachInternetGateway", "modify", T("igw", Empty, BackendId("igw-", g)), "fail"),
                 SetState([BaseRec EXCEPT !.id = BackendId("vpc-", g), !.name = p.name,
                                          !.type = p.type,
                                          !.subnet_id = BackendId("subnet-", g),
                                          !.gateway_id = BackendId("igw-", g)]) >>
      [] p.type = AZURE ->
           NilCheck(c, "fail")
           \o << Do("rg.CreateOrUpdate", "upsert", T("rg", Empty, RG), "fail"),
                 Main(Ins("vnet.BeginCreateOrUpdate", "upsert", T("vnet", RG, p.name),
                          TRUE, "sdk", "fail", 0)),
                 Ins("subnet.BeginCreateOrUpdate", "upsert", T("subnet", RG \o p.name, K("default")),
                     TRUE, "sdk", "fail", 0),
                 SetState([BaseRec EXCEPT !.id = ArmId(RG, "virtualNetworks", p.name),
                                          !.name = p.name, !.type = p.type,
                                          !.subnet_id = ArmId(RG \o p.name, "subnets", K("default"))]) >>
      [] p.type = GCP ->
           LET name == Or(p.name, K("abstract-network"))
           IN  NilCheck(c, "fail")
               \o << Main(Ins("compute.Networks.Insert", "create", T("gnetwork", Empty, name),
                              TRUE, "none", "fail", 0)) >>
               \o When(p.cidr # Empty,
                       Ins("compute.Subnetworks.Insert", "create",
                           T("gsubnet", Or(c.region, DefaultGcpRegion), name \o K("-subnet")),
                           TRUE, "none", "fail", 0))
               \o << SetState([BaseRec EXCEPT !.id = name, !.name = name, !.type = p.type,
                                              !.subnet_id = IF p.cidr # Empty
                                                            THEN name \o K("-subnet") ELSE Empty]) >>
      [] OTHER -> Unsupported

NetworkRead(s, c) ==
    CASE s.type = AWS ->
           NilCheck(c, "return")
           \o << Do("ec2.DescribeVpcs", "get", T("vpc", Empty, s.id), "remove") >>
      [] s.type = AZURE ->
           NilCheck(c, "return")
           \o << Do("vnet.Get", "get", T("vnet", RG, s.id), "remove") >>
      [] s.type = GCP ->
           NilCheck(c, "return")
           \o << Do("compute.Networks.Get", "get", T("gnetwork", Empty, s.id), "remove") >>
      [] OTHER -> << >>

NetworkUpdate(p, s, c) == << >>

NetworkDelete(s, c) ==
    CASE s.type = AWS ->
           NilCheck(c, "return")
           \o When(s.gateway_id # Empty,
                   Do("ec2.DetachInternetGateway", "modify", T("igw", Empty, s.gateway_id), "ignore"))
           \o When(s.gateway_id # Empty,
                   Do("ec2.DeleteInternetGateway", "destroy", T("igw", Empty, s.gateway_id), "ignore"))
           \o When(s.subnet_id # Empty,
                   Do("ec2.DeleteSubnet", "destroy", T("subnet", Empty, s.subnet_id), "ignore"))
           \o << Do("ec2.DeleteVpc", "destroy", T("vpc", Empty, s.id), "report") >>
      [] s.type = AZURE ->
           NilCheck(c, "return")
           \o << Idem(Ins("vnet.BeginDelete", "destroy", T("vnet", RG, s.id),
                          TRUE, "sdk", "report", 0)) >>
      [] s.type = GCP ->
           NilCheck(c, "return")
           \o When(s.subnet_id # Empty,
                   Valid(c.region # Empty,
                         Ins("compute.Subnetworks.Delete", "destroy",
                             T("gsubnet", c.region, s.subnet_id), TRUE, "none", "ignore", 0)))
           \o << Ins("compute.Networks.Delete", "destroy", T("gnetwork", Empty, s.id),
                     TRUE, "none", "report", 0) >>
      [] OTHER -> << >>

(***************************************************************************)
(* abstract_instance                                                       *)
(***************************************************************************)
DefaultGcpZone == K("us-central1-a")

VNET == K("abstract-vnet")

SMALL == <<"s", "m", "a", "l", "l">>
MEDIUM == <<"m", "e", "d", "i", "u", "m">>
LARGE == <<"l", "a", "r", "g", "e">>

\* the table read one entry too far
SizeTableShifted(tag) ==
    CASE tag = AWS -> << K("t3.medium"), K("t3.large"), K("t3.xlarge") >>
      [] tag = AZURE -> << K("Standard_B2s"), K("Standard_B4ms"), K("Standard_B8ms") >>
      [] tag = GCP -> << K("e2-medium"), K("e2-standard-4"), K("e2-standard-8") >>

\* the concrete sizes of one backend, smallest first
SizeTable(tag) ==
    CASE tag = AWS -> << K("t3.small"), K("t3.medium"), K("t3.large") >>
      [] tag = AZURE -> << K("Standard_B1s"), K("Standard_B2s"), K("Standard_B4ms") >>
      [] tag = GCP -> << K("e2-small"), K("e2-medium"), K("e2-standard-4") >>

\* the switch taken on the size as written, without strings.ToLower
MachineTypeExact(tag, size) ==
    LET given == Or(size, SMALL)
    IN  CASE given = SMALL -> SizeTable(tag)[1]
          [] given = MEDIUM -> SizeTable(tag)[2]
          [] given = LARGE -> SizeTable(tag)[3]
          [] OTHER -> given

\* size := plan.Size; if size == "" { size = "small" }
\* switch strings.ToLower(size) { case "small": ... default: instanceType = size }
MachineType(tag, size) ==
    LET given == Or(size, SMALL)
        class == ToLower(given)
    IN  CASE class = SMALL -> SizeTable(tag)[1]
          [] class = MEDIUM -> SizeTable(tag)[2]
          [] class = LARGE -> SizeTable(tag)[3]
          [] OTHER -> given

InstanceCreate(p, c, g) ==
    CASE p.type = AWS ->
           NilCheck(c, "fail")
           \o When(p.image = Empty, Abort("image required", "fail"))
           \o << Norm("instanceType"),
                 Arg(MachineType(AWS, p.size),
                     Main(Do("ec2.RunInstances", "new", T("ec2instance", Empty, BackendId("i-", g)),
                             "fail"))) >>
           \o When(p.name # Empty,
                   Do("ec2.CreateTags", "modify", T("ec2instance", Empty, BackendId("i-", g)), "fail"))
           \o << SetState([BaseRec EXCEPT !.id = BackendId("i-", g), !.name = p.name,
                                          !.type = p.type, !.region = p.region,
                                          !.size = MachineType(AWS, p.size)]) >>
      [] p.type = AZURE ->
           NilCheck(c, "fail")
           \o << Do("rg.CreateOrUpdate", "upsert", T("rg", Empty, RG), "fail"),
                 \* found: the two creations below are skipped; not found: they run
                 Ins("subnet.Get", "get", T("subnet", RG \o VNET, K("default")),
                     FALSE, "none", "ignore", 2),
                 Ins("vnet.BeginCreateOrUpdate", "upsert", T("vnet", RG, VNET),
                     TRUE, "sdk", "fail", 0),
                 Ins("subnet.BeginCreateOrUpdate", "upsert", T("subnet", RG \o VNET, K("default")),
                     TRUE, "sdk", "fail", 0),
                 Ins("pip.BeginCreateOrUpdate", "upsert", T("pip", RG, p.name \o K("-pip")),
                     TRUE, "sdk", "fail", 0),
                 Ins("nic.BeginCreateOrUpdate", "upsert", T("nic", RG, p.name \o K("-nic")),
                     TRUE, "sdk", "fail", 0),
                 Norm("vmSize"),
                 Arg(MachineType(AZURE, p.size),
                     Main(Ins("vm.BeginCreateOrUpdate", "upsert", T("vm", RG, p.name),
                              TRUE, "sdk", "fail", 0))),
                 SetState([BaseRec EXCEPT !.id = ArmId(RG, "virtualMachines", p.name),
                                          !.name = p.name, !.type = p.type,
                                          !.region = AzureLoc(p, c),
                                          !.size = MachineType(AZURE, p.size)]) >>
      [] p.type = GCP ->
           LET zone == Or(Or(p.region, c.region), DefaultGcpZone)
           IN  NilCheck(c, "fail")
               \o << Norm("machineType"),
                     Arg(MachineType(GCP, p.size),
                         Main(Ins("compute.Instances.Insert", "create", T("ginstance", zone, p.name),
                                  TRUE, "none", "fail", 0))),
                     SetState([BaseRec EXCEPT !.id = p.name, !.name = p.name, !.type = p.type,
                                              !.region = zone,
                                              !.size = MachineType(GCP, p.size)]) >>
      [] OTHER -> Unsupported

InstanceRead(s, c) ==
    CASE s.type = AWS ->
           NilCheck(c, "return")
           \o << Do("ec2.DescribeInstances", "get", T("ec2instance", Empty, s.id), "remove") >>
      [] s.type = AZURE ->
           NilCheck(c, "return")
           \o << Do("vm.Get", "get", T("vm", RG, s.id), "remove") >>
      [] s.type = GCP ->
           NilCheck(c, "return")
           \o << Do("compute.Instances.Get", "get",
                    T("ginstance", Or(Or(s.region, c.region), DefaultGcpZone), s.id), "remove") >>
      [] OTHER -> << >>

InstanceUpdate(p, s, c) == << >>

InstanceDelete(s, c) ==
    CASE s.type = AWS ->
           NilCheck(c, "return")
           \o << Do("ec2.TerminateInstances", "destroy", T("ec2instance", Empty, s.id), "report") >>
      [] s.type = AZURE ->
           NilCheck(c, "return")
           \o << Idem(Ins("vm.BeginDelete", "destroy", T("vm", RG, s.id),
                          TRUE, "sdk", "report", 0)) >>
      [] s.type = GCP ->
           NilCheck(c, "return")
           \o << Ins("compute.Instances.Delete", "destroy",
                     T("ginstance", Or(Or(s.region, c.region), DefaultGcpZone), s.id),
                     TRUE, "none", "report", 0) >>
      [] OTHER -> << >>

(***************************************************************************)
(* abstract_function                                                       *)
(***************************************************************************)
FunctionCreate(p, c, g) ==
    CASE p.type = AWS ->
           NilCheck(c, "fail")
           \o EnvCheck(c, "LAMBDA_ROLE_ARN must be set")
           \o << Main(Do("lambda.CreateFunction", "create", T("lambda", Empty, p.name), "fail")),
                 SetState([BaseRec EXCEPT !.id = p.name, !.name = p.name, !.type = p.type,
                                          !.region = p.region]) >>
      [] p.type = AZURE ->
           NilCheck(c, "fail")
           \o << Do("rg.CreateOrUpdate", "upsert", T("rg", Empty, RG), "fail"),
                 Norm("acctName"),
                 Ins("accounts.BeginCreate", "upsert", T("account", RG, AccountName(p.name)),
                     TRUE, "sdk", "fail", 0),
                 Ins("plans.BeginCreateOrUpdate", "upsert", T("serverfarm", RG, p.name \o K("-plan")),
                     TRUE, "sdk", "fail", 0),
                 Main(Ins("web.BeginCreateOrUpdate", "upsert", T("site", RG, p.name),
                          TRUE, "sdk", "fail", 0)),
                 SetState([BaseRec EXCEPT !.id = p.name, !.name = p.name, !.type = p.type,
                                          !.region = AzureLoc(p, c),
                                          !.account = AccountName(p.name),
                                          !.plan = p.name \o K("-plan"), !.rgroup = RG]) >>
      [] p.type = GCP ->
           LET region == Or(p.region, c.region)
           IN  NilCheck(c, "fail")
               \o EnvCheck(c, "read code")
               \o << Do("functions.GenerateUploadUrl", "rpc", NoTarget, "fail"),
                     Do("http.Put", "rpc", NoTarget, "fail"),
                     \* parent is "projects/<p>/locations/<region>"
                     Valid(region # Empty,
                           Main(Ins("functions.Create", "create", T("gfunction", region, p.name),
                                    TRUE, "loop", "fail", 0))),
                     SetState([BaseRec EXCEPT !.id = p.name, !.name = p.name, !.type = p.type,
                                              !.region = region]) >>
      [] OTHER -> Unsupported

FunctionRead(s, c) ==
    CASE s.type = AWS ->
           NilCheck(c, "return")
           \o << Do("lambda.GetFunction", "get", T("lambda", Empty, s.id), "remove") >>
      [] s.type = AZURE ->
           NilCheck(c, "return")
           \o << Do("web.Get", "get", T("site", RG, s.id), "remove") >>
      [] s.type = GCP ->
           NilCheck(c, "return")
           \o << Do("functions.Get", "get",
                    T("gfunction", Or(c.region, DefaultGcpRegion), s.id), "remove") >>
      [] OTHER -> << >>

FunctionUpdate(p, s, c) == << >>

FunctionDelete(s, c) ==
    CASE s.type = AWS ->
           NilCheck(c, "return")
           \o << Do("lambda.DeleteFunction", "destroy", T("lambda", Empty, s.id), "report") >>
      [] s.type = AZURE ->
           NilCheck(c, "return")
           \o << Idem(Do("web.Delete", "destroy", T("site", RG, s.id), "report")) >>
           \o When(s.plan # Empty,
                   Idem(Do("plans.Delete", "destroy", T("serverfarm", RG, s.plan), "ignore")))
           \o When(s.rgroup # Empty /\ s.account # Empty,
                   Idem(Do("accounts.Delete", "destroy", T("account", s.rgroup, s.account),
                           "ignore")))
      [] s.type = GCP ->
           NilCheck(c, "return")
           \o << Ins("functions.Delete", "destroy",
                     T("gfunction", Or(c.region, DefaultGcpRegion), s.id),
                     TRUE, "loop", "fail", 0) >>
      [] OTHER -> << >>

(***************************************************************************)
(* abstract_cluster                                                        *)
(***************************************************************************)
ClusterCreate(p, c, g) ==
    CASE p.type = AWS ->
           NilCheck(c, "fail")
           \o << Do("ec2.DescribeVpcs", "get", T("vpc", Empty, K("default")), "fail"),
                 Do("ec2.DescribeSubnets", "get", T("subnet", Empty, K("default")), "fail") >>
           \o EnvCheck(c, "EKS_ROLE_ARN and EKS_NODE_ROLE_ARN must be set")
           \o << Main(Ins("eks.CreateCluster", "create", T("ekscluster", Empty, p.name),
                          TRUE, "none", "fail", 0)),
                 Ins("eks.CreateNodegroup", "create", T("nodegroup", p.name, p.name \o K("-ng")),
                     TRUE, "none", "fail", 0),
                 SetState([BaseRec EXCEPT !.id = p.name, !.name = p.name, !.type = p.type,
                                          !.region = p.region]) >>
      [] p.type = AZURE ->
           NilCheck(c, "fail")
           \o << Do("rg.CreateOrUpdate", "upsert", T("rg", Empty, RG), "fail"),
                 Main(Ins("aks.BeginCreateOrUpdate", "upsert", T("aks", RG, p.name),
                          TRUE, "sdk", "fail", 0)),
                 SetState([BaseRec EXCEPT !.id = p.name, !.name = p.name, !.type = p.type,
                                          !.region = Or(Or(c.region, p.region), K("eastus"))]) >>
      [] p.type = GCP ->
           LET region == Or(Or(p.region, c.region), DefaultGcpRegion)
               name == Or(p.name, K("abstract-cluster"))
           IN  NilCheck(c, "fail")
               \o << Main(Ins("gke.Clusters.Create", "create", T("gke", region, name),
                              TRUE, "loop", "fail", 0)),
                     SetState([BaseRec EXCEPT !.id = name, !.name = name, !.type = p.type,
                                              !.region = region]) >>
      [] OTHER -> Unsupported

ClusterRead(s, c) ==
    CASE s.type = AWS ->
           NilCheck(c, "return")
           \o << Do("eks.DescribeCluster", "get", T("ekscluster", Empty, s.id), "remove") >>
      [] s.type = AZURE ->
           NilCheck(c, "return")
           \o << Do("aks.Get", "get", T("aks", RG, s.id), "remove") >>
      [] s.type = GCP ->
           NilCheck(c, "return")
           \o << Do("gke.Clusters.Get", "get",
                    T("gke", Or(c.region, DefaultGcpRegion), s.id), "remove") >>
      [] OTHER -> << >>

ClusterUpdate(p, s, c) == << >>

ClusterDelete(s, c) ==
    CASE s.type = AWS ->
           NilCheck(c, "return")
           \o << Ins("eks.DeleteNodegroup", "destroy", T("nodegroup", s.id, s.id \o K("-ng")),
                     TRUE, "none", "ignore", 0),
                 Ins("eks.DeleteCluster", "destroy", T("ekscluster", Empty, s.id),
                     TRUE, "none", "report", 0) >>
      [] s.type = AZURE ->
           NilCheck(c, "return")
           \o << Idem(Ins("aks.BeginDelete", "destroy", T("aks", RG, s.id),
                          TRUE, "sdk", "report", 0)) >>
      [] s.type = GCP ->
           NilCheck(c, "return")
           \o << Ins("gke.Clusters.Delete", "destroy",
                     T("gke", Or(c.region, DefaultGcpRegion), s.id), TRUE, "loop", "fail", 0) >>
      [] OTHER -> << >>

(***************************************************************************)
(* abstract_registry                                                       *)
(***************************************************************************)
RegistryCreate(p, c, g) ==
    CASE p.type = AWS ->
           NilCheck(c, "fail")
           \o << Main(Do("ecr.CreateRepository", "create", T("ecr", Empty, p.name), "fail")),
                 SetState([BaseRec EXCEPT !.id = Arn("ecr", p.name), !.name = p.name,
                                          !.type = p.type]) >>
      [] p.type = AZURE ->
           NilCheck(c, "fail")
           \o << Do("rg.CreateOrUpdate", "upsert", T("rg", Empty, RG), "fail"),
                 Main(Ins("registries.BeginCreate", "upsert", T("acr", RG, p.name),
                          TRUE, "sdk", "fail", 0)),
                 Do("registries.Get", "get", T("acr", RG, p.name), "fail"),
                 SetState([BaseRec EXCEPT !.id = ArmId(RG, "registries", p.name),
                                          !.name = p.name, !.type = p.type,
                                          !.region = AzureLoc(p, c), !.rgroup = RG]) >>
      [] p.type = GCP -> << Abort("registry resource not implemented", "fail") >>
      [] OTHER -> Unsupported

RegistryRead(s, c) ==
    CASE s.type = AWS ->
           NilCheck(c, "return")
           \o << Do("ecr.DescribeRepositories", "get", T("ecr", Empty, s.name), "remove") >>
      [] s.type = AZURE ->
           NilCheck(c, "return")
           \o << Do("registries.Get", "get", T("acr", s.rgroup, s.name), "remove") >>
      [] OTHER -> << >>

RegistryUpdate(p, s, c) == << >>

RegistryDelete(s, c) ==
    CASE s.type = AWS ->
           NilCheck(c, "return")
           \o << Do("ecr.DeleteRepository", "destroy", T("ecr", Empty, s.name), "report") >>
      [] s.type = AZURE ->
           NilCheck(c, "return")
           \o << Idem(Ins("registries.BeginDelete", "destroy", T("acr", s.rgroup, s.name),
                          TRUE, "sdk", "report", 0)) >>
      [] OTHER -> << >>

(***************************************************************************)
(* abstract_secret                                                         *)
(***************************************************************************)
VAULT == K("vault")

SecretCreate(p, c, g) ==
    CASE p.type = AWS ->
           NilCheck(c, "fail")
           \o << Main(Do("sm.CreateSecret", "create", T("smsecret", Empty, p.name), "fail")),
                 SetState([BaseRec EXCEPT !.id = Arn("secret", p.name), !.name = p.name,
                                          !.type = p.type]) >>
      [] p.type = AZURE ->
           NilCheck(c, "fail")
           \o EnvCheck(c, "AZURE_KEY_VAULT_URL not set")
           \o << Main(Do("kv.SetSecret", "upsert", T("kvsecret", VAULT, p.name), "fail")),
                 SetState([BaseRec EXCEPT !.id = VAULT \o K("#") \o p.name, !.name = p.name,
                                          !.type = p.type]) >>
      [] p.type = GCP ->
           NilCheck(c, "fail")
           \o << Main(Do("secrets.Create", "create", T("gsecret", Empty, p.name), "exists")),
                 Do("secrets.AddVersion", "modify", T("gsecret", Empty, p.name), "fail"),
                 SetState([BaseRec EXCEPT !.id = K("projects/p/secrets/") \o p.name,
                                          !.name = p.name, !.type = p.type]) >>
      [] OTHER -> Unsupported

SecretRead(s, c) ==
    CASE s.type = AWS ->
           NilCheck(c, "return")
           \o << Do("sm.GetSecretValue", "get", T("smsecret", Empty, s.name), "remove") >>
      [] s.type = AZURE ->
           NilCheck(c, "return")
           \o When(c.mode = "noenv", Abort("AZURE_KEY_VAULT_URL not set", "remove"))
           \o << Do("kv.GetSecret", "get", T("kvsecret", VAULT, s.name), "remove") >>
      [] s.type = GCP ->
           NilCheck(c, "return")
           \o << Do("secrets.Get", "get", T("gsecret", Empty, s.name), "remove") >>
      [] OTHER -> << >>

SecretDelete(s, c) ==
    CASE s.type = AWS ->
           NilCheck(c, "return")
           \o << Do("sm.DeleteSecret", "destroy", T("smsecret", Empty, s.name), "report") >>
      [] s.type = AZURE ->
           NilCheck(c, "return")
           \o When(c.mode = "noenv", Abort("AZURE_KEY_VAULT_URL not set", "return"))
           \o << Ins("kv.BeginDeleteSecret", "destroy", T("kvsecret", VAULT, s.name),
                     TRUE, "none", "report", 0) >>
      [] s.type = GCP ->
           NilCheck(c, "return")
           \o << Do("secrets.Delete", "destroy", T("gsecret", Empty, s.name), "report") >>
      [] OTHER -> << >>

(***************************************************************************)
(* abstract_dns_record.  The "type" attribute is read both as the backend  *)
(* tag (after strings.ToLower) and as the DNS record type.                 *)
(***************************************************************************)
RecordTypes == {K("A"), <<"C", "N", "A", "M", "E">>}

\* the zone appended without the suffix test
FqdnAppended(name, zone) == name \o K(".") \o zone \o K(".")

\* fqdn := name; if !strings.HasSuffix(fqdn, zone+".") { fqdn = fqdn + "." + zone + "." }
Fqdn(name, zone) ==
    IF HasSuffix(name, zone \o K(".")) THEN name ELSE name \o K(".") \o zone \o K(".")

\* a record set of one record type under a zone
RRSet(scope, fqdn, rtype) == T("rrset", scope, fqdn \o K("/") \o rtype)

\* recordType := A; if strings.EqualFold(type, "CNAME") { recordType = CNAME }
AzureRecordType(type) ==
    IF EqualFold(type, <<"C", "N", "A", "M", "E">>) THEN <<"C", "N", "A", "M", "E">> ELSE K("A")

DNSRecordCreate(p, c, g) ==
    LET fqdn == Fqdn(p.name, p.zone)
        tag == ToLower(p.type)
    IN  CASE tag = AWS ->
               << Norm("fqdn") >>
               \o NilCheck(c, "fail")
               \o << Do("route53.ListHostedZonesByName", "get", T("hostedzone", Empty, p.zone), "fail"),
                     Valid(p.type \in RecordTypes,
                           Main(Do("route53.ChangeResourceRecordSets", "upsert",
                                   RRSet(p.zone, fqdn, p.type), "fail"))),
                     SetState([BaseRec EXCEPT !.id = K("Z/") \o fqdn, !.name = p.name,
                                              !.type = p.type, !.zone = p.zone]) >>
          [] tag = AZURE ->
               << Norm("fqdn") >>
               \o NilCheck(c, "fail")
               \o << Do("rg.CreateOrUpdate", "upsert", T("rg", Empty, DNSRG), "fail"),
                     Do("zones.CreateOrUpdate", "upsert", T("dnszone", DNSRG, p.zone), "fail"),
                     Main(Do("records.CreateOrUpdate", "upsert",
                             RRSet(DNSRG \o p.zone, fqdn, AzureRecordType(p.type)), "fail")),
                     SetState([BaseRec EXCEPT !.id = p.zone \o K("/") \o fqdn, !.name = p.name,
                                              !.type = p.type, !.zone = p.zone,
                                              !.rgroup = DNSRG]) >>
          [] tag = GCP ->
               << Norm("fqdn") >>
               \o NilCheck(c, "fail")
               \o << \* found: the creation below is skipped; not found: it runs
                     Ins("dns.ManagedZones.Get", "get", T("gzone", Empty, p.zone),
                         FALSE, "none", "ignore", 1),
                     Do("dns.ManagedZones.Create", "create", T("gzone", Empty, p.zone), "fail"),
                     Valid(ToUpper(p.type) \in RecordTypes,
                           Main(Do("dns.Changes.Create", "create",
                                   RRSet(p.zone, fqdn, ToUpper(p.type)), "fail"))),
                     SetState([BaseRec EXCEPT !.id = p.zone \o K("/") \o fqdn, !.name = p.name,
                                              !.type = p.type, !.zone = p.zone]) >>
          [] OTHER -> << Norm("fqdn") >> \o Unsupported

DNSRecordRead(s, c) ==
    LET fqdn == Fqdn(s.name, s.zone)
        tag == ToLower(s.type)
    IN  CASE tag = AWS ->
               NilCheck(c, "return")
               \o << Do("route53.ListHostedZonesByName", "get", T("hostedzone", Empty, s.zone), "remove"),
                     Do("route53.ListResourceRecordSets", "get",
                        RRSet(s.zone, fqdn, ToUpper(s.type)), "remove") >>
          [] tag = AZURE ->
               NilCheck(c, "return")
               \o << Do("records.Get", "get",
                        RRSet(Or(s.rgroup, DNSRG) \o s.zone, fqdn, ToUpper(s.type)), "remove") >>
          [] tag = GCP ->
               NilCheck(c, "return")
               \o << Do("dns.ResourceRecordSets.List", "get",
                        RRSet(s.zone, fqdn, ToUpper(s.type)), "remove") >>
          [] OTHER -> << >>

DNSRecordDelete(s, c) ==
    LET fqdn == Fqdn(s.name, s.zone)
        tag == ToLower(s.type)
    IN  CASE tag = AWS ->
               NilCheck(c, "return")
               \o << Do("route53.ListHostedZonesByName", "get", T("hostedzone", Empty, s.zone), "return"),
                     Do("route53.ChangeResourceRecordSets", "destroy",
                        RRSet(s.zone, fqdn, ToUpper(s.type)), "ignore") >>
          [] tag = AZURE ->
               NilCheck(c, "return")
               \o << Idem(Do("records.Delete", "destroy",
                             RRSet(Or(s.rgroup, DNSRG) \o s.zone, fqdn, ToUpper(s.type)),
                             "ignore")) >>
          [] tag = GCP ->
               NilCheck(c, "return")
               \o << Do("dns.Changes.Create", "destroy",
                        RRSet(s.zone, fqdn, ToUpper(s.type)), "ignore") >>
          [] OTHER -> << >>

(***************************************************************************)
(* abstract_queue                                                          *)
(***************************************************************************)
FIFO == <<".", "f", "i", "f", "o">>

\* if plan.FIFO { if !strings.HasSuffix(name, ".fifo") { name += ".fifo" } }
QueueName(name, fifo) == IF fifo /\ ~HasSuffix(name, FIFO) THEN name \o FIFO ELSE name

QueueUrl(name) == K("https://sqs/") \o name

QueueCreate(p, c, g) ==
    CASE p.type = AWS ->
           NilCheck(c, "fail")
           \o << Norm("name"),
                 Main(Do("sqs.CreateQueue", "upsert",
                         T("sqsqueue", Empty, QueueUrl(QueueName(p.name, p.flag))), "fail")),
                 SetState([BaseRec EXCEPT !.id = QueueUrl(QueueName(p.name, p.flag)),
                                          !.name = QueueName(p.name, p.flag),
                                          !.type = p.type]) >>
      [] p.type = AZURE ->
           NilCheck(c, "fail")
           \o << Do("rg.CreateOrUpdate", "upsert", T("rg", Empty, RG), "fail"),
                 Norm("acctName"),
                 Ins("accounts.BeginCreate", "upsert", T("account", RG, AccountName(p.name)),
                     TRUE, "sdk", "fail", 0),
                 Do("accounts.ListKeys", "get", T("account", RG, AccountName(p.name)), "fail"),
                 Main(Do("queue.CreateQueue", "upsert",
                         T("azqueue", AccountName(p.name), p.name), "fail")),
                 SetState([BaseRec EXCEPT !.id = p.name, !.name = p.name, !.type = p.type,
                                          !.region = AzureLoc(p, c),
                                          !.account = AccountName(p.name), !.rgroup = RG]) >>
      [] p.type = GCP -> << Abort("queue resource not implemented", "fail") >>
      [] OTHER -> Unsupported

QueueRead(s, c) ==
    CASE s.type = AWS ->
           NilCheck(c, "return")
           \o << Do("sqs.GetQueueAttributes", "get", T("sqsqueue", Empty, s.id), "remove") >>
      [] s.type = AZURE ->
           NilCheck(c, "return")
           \o << Do("accounts.ListKeys", "get", T("account", s.rgroup, s.account), "remove"),
                 Do("queue.GetProperties", "get", T("azqueue", s.account, s.id), "remove") >>
      [] OTHER -> << >>

QueueUpdate(p, s, c) == << >>

QueueDelete(s, c) ==
    CASE s.type = AWS ->
           NilCheck(c, "return")
           \o << Do("sqs.DeleteQueue", "destroy", T("sqsqueue", Empty, s.id), "report") >>
      [] s.type = AZURE ->
           NilCheck(c, "return")
           \o << Do("accounts.ListKeys", "get", T("account", s.rgroup, s.account), "fail"),
                 Do("queue.DeleteQueue", "destroy", T("azqueue", s.account, s.id), "report"),
                 Idem(Do("accounts.Delete", "destroy", T("account", s.rgroup, s.account),
                         "report")) >>
      [] OTHER -> << >>

(***************************************************************************)
(* abstract_database                                                       *)
(***************************************************************************)
\* id := plan.Name; if id == "" { id = fmt.Sprintf("db-%d", time.Now().Unix()) }: a name
\* taken from the clock, another one at every Create
DbName(p, g) == IF p.name = Empty THEN BackendId("db-", g) ELSE p.name

DatabaseCreate(p, c, g) ==
    CASE p.type = AWS ->
           NilCheck(c, "fail")
           \o EnvCheck(c, "RDS_PASSWORD must be set")
           \o << Main(Ins("rds.CreateDBInstance", "create", T("rds", Empty, DbName(p, g)),
                          TRUE, "none", "fail", 0)),
                 SetState([BaseRec EXCEPT !.id = DbName(p, g), !.name = p.name, !.type = p.type,
                                          !.engine = p.engine,
                                          !.size = Or(p.size, K("db.t3.micro"))]) >>
      [] p.type = AZURE ->
           NilCheck(c, "fail")
           \o << Do("rg.CreateOrUpdate", "upsert", T("rg", Empty, RG), "fail") >>
           \o EnvCheck(c, "AZURE_DB_PASSWORD must be set")
           \o (CASE ToLower(p.engine) = MYSQL ->
                      << Main(Ins("mysql.BeginCreate", "upsert", T("mysql", RG, DbName(p, g)),
                                  TRUE, "sdk", "fail", 0)) >>
                 [] ToLower(p.engine) \in {POSTGRES, POSTGRES \o <<"q", "l">>} ->
                      << Main(Ins("postgres.BeginCreate", "upsert", T("postgres", RG, DbName(p, g)),
                                  TRUE, "sdk", "fail", 0)) >>
                 [] OTHER -> << Abort("unsupported engine", "fail") >>)
           \o << SetState([BaseRec EXCEPT !.id = DbName(p, g), !.name = p.name, !.type = p.type,
                                          !.engine = p.engine,
                                          !.size = Or(p.size, K("Standard_B1ms"))]) >>
      [] p.type = GCP ->
           NilCheck(c, "fail")
           \o << Main(Ins("sql.Instances.Insert", "create", T("gsql", Empty, DbName(p, g)),
                          TRUE, "loop", "fail", 0)),
                 SetState([BaseRec EXCEPT !.id = DbName(p, g), !.name = p.name, !.type = p.type,
                                          !.engine = p.engine,
                                          !.size = Or(p.size, K("db-f1-micro"))]) >>
      [] OTHER -> Unsupported

DatabaseRead(s, c) ==
    CASE s.type = AWS ->
           NilCheck(c, "return")
           \o << Do("rds.DescribeDBInstances", "get", T("rds", Empty, s.id), "remove") >>
      [] s.type = AZURE ->
           NilCheck(c, "return")
           \o << \* found: the second lookup is skipped; any error: it runs
                 Ins("mysql.Get", "get", T("mysql", RG, s.id), FALSE, "none", "ignore", 1),
                 Do("postgres.Get", "get", T("postgres", RG, s.id), "remove") >>
      [] s.type = GCP ->
           NilCheck(c, "return")
           \o << Do("sql.Instances.Get", "get", T("gsql", Empty, s.id), "remove") >>
      [] OTHER -> << >>

DatabaseUpdate(p, s, c) == << >>

\* the fallback written as a second attempt at the same delete
DatabaseDeleteRetrying(s, c) ==
    CASE s.type = AZURE ->
           NilCheck(c, "return")
           \o << Idem(Ins("mysql.BeginDelete", "destroy", T("mysql", RG, s.id),
                          TRUE, "sdk", "ignore", 1)),
                 Idem(Ins("mysql.BeginDelete", "destroy", T("mysql", RG, s.id),
                          TRUE, "sdk", "report", 0)) >>
      [] OTHER -> << >>

DatabaseDelete(s, c) ==
    CASE s.type = AWS ->
           NilCheck(c, "return")
           \o << Ins("rds.DeleteDBInstance", "destroy", T("rds", Empty, s.id),
                     TRUE, "none", "report", 0) >>
      [] s.type = AZURE ->
           NilCheck(c, "return")
           \o << \* no error: the second delete is skipped; any error: it runs
                 Idem(Ins("mysql.BeginDelete", "destroy", T("mysql", RG, s.id),
                          TRUE, "sdk", "ignore", 1)),
                 Idem(Ins("postgres.BeginDelete", "destroy", T("postgres", RG, s.id),
                          TRUE, "sdk", "report", 0)) >>
      [] s.type = GCP ->
           NilCheck(c, "return")
           \o << Ins("sql.Instances.Delete", "destroy", T("gsql", Empty, s.id),
                     TRUE, "loop", "fail", 0) >>
      [] OTHER -> << >>

(***************************************************************************)
(* abstract_serverless_container                                           *)
(***************************************************************************)
ECSCLUSTER == K("default")

ServerlessContainerCreate(p, c, g) ==
    CASE p.type = AWS ->
           NilCheck(c, "fail")
           \o << Do("ec2.DescribeSubnets", "get", T("subnet", Empty, K("default")), "fail"),
                 \* every registration makes a new revision of the family
                 Do("ecs.RegisterTaskDefinition", "new", T("taskdef", p.name, K(ToString(g))), "fail"),
                 Main(Do("ecs.RunTask", "new", T("task", ECSCLUSTER, BackendId("task-", g)), "fail")),
                 SetState([BaseRec EXCEPT !.id = BackendId("task-", g), !.name = p.name,
                                          !.type = p.type]) >>
      [] p.type = AZURE ->
           NilCheck(c, "fail")
           \o << Do("rg.CreateOrUpdate", "upsert", T("rg", Empty, RG), "fail"),
                 Main(Ins("ci.BeginCreateOrUpdate", "upsert", T("cgroup", RG, p.name),
                          TRUE, "sdk", "fail", 0)),
                 Do("ci.Get", "get", T("cgroup", RG, p.name), "fail"),
                 SetState([BaseRec EXCEPT !.id = ArmId(RG, "containerGroups", p.name),
                                          !.name = p.name, !.type = p.type,
                                          !.region = AzureLoc(p, c)]) >>
      [] p.type = GCP -> << Abort("serverless container resource not implemented", "fail") >>
      [] OTHER -> Unsupported

ServerlessContainerRead(s, c) ==
    CASE s.type = AWS ->
           NilCheck(c, "return")
           \o << \* a task that is gone is reported in the answer's failures, not as an error
                 Idem(Do("ecs.DescribeTasks", "get", T("task", ECSCLUSTER, s.id), "remove")) >>
      [] s.type = AZURE ->
           NilCheck(c, "return")
           \o << Do("ci.Get", "get", T("cgroup", RG, s.name), "remove") >>
      [] OTHER -> << >>

ServerlessContainerUpdate(p, s, c) == << >>

ServerlessContainerDelete(s, c) ==
    CASE s.type = AWS ->
           NilCheck(c, "return")
           \o << Do("ecs.StopTask", "destroy", T("task", ECSCLUSTER, s.id), "report") >>
      [] s.type = AZURE ->
           NilCheck(c, "return")
           \o << Idem(Ins("ci.BeginDelete", "destroy", T("cgroup", RG, s.name),
                          TRUE, "sdk", "report", 0)) >>
      [] OTHER -> << >>

(***************************************************************************)
(* abstract_load_balancer                                                  *)
(***************************************************************************)
LoadBalancerCreate(p, c, g) ==
    CASE p.type = AWS ->
           NilCheck(c, "fail")
           \o << Do("ec2.DescribeSubnets", "get", T("subnet", Empty, K("default")), "fail"),
                 Main(Do("elb.CreateLoadBalancer", "upsert", T("elb", Empty, Arn("elb", p.name)),
                         "fail")),
                 SetState([BaseRec EXCEPT !.id = Arn("elb", p.name), !.name = p.name,
                                          !.type = p.type]) >>
      [] p.type = AZURE ->
           NilCheck(c, "fail")
           \o << Do("rg.CreateOrUpdate", "upsert", T("rg", Empty, RG), "fail"),
                 Ins("pip.BeginCreateOrUpdate", "upsert", T("pip", RG, p.name \o K("-pip")),
                     TRUE, "sdk", "fail", 0),
                 Main(Ins("lb.BeginCreateOrUpdate", "upsert", T("lb", RG, p.name),
                          TRUE, "sdk", "fail", 0)),
                 Do("pip.Get", "get", T("pip", RG, p.name \o K("-pip")), "fail"),
                 SetState([BaseRec EXCEPT !.id = p.name, !.name = p.name, !.type = p.type,
                                          !.region = AzureLoc(p, c)]) >>
      [] p.type = GCP -> << Abort("load balancer resource not implemented", "fail") >>
      [] OTHER -> Unsupported

LoadBalancerRead(s, c) ==
    CASE s.type = AWS ->
           NilCheck(c, "return")
           \o << Do("elb.DescribeLoadBalancers", "get", T("elb", Empty, s.id), "remove") >>
      [] s.type = AZURE ->
           NilCheck(c, "return")
           \o << Do("lb.Get", "get", T("lb", RG, s.name), "remove") >>
      [] OTHER -> << >>

LoadBalancerUpdate(p, s, c) == << >>

LoadBalancerDelete(s, c) ==
    CASE s.type = AWS ->
           NilCheck(c, "return")
           \o << Idem(Do("elb.DeleteLoadBalancer", "destroy", T("elb", Empty, s.id), "report")) >>
      [] s.type = AZURE ->
           NilCheck(c, "return")
           \o << Idem(Ins("lb.BeginDelete", "destroy", T("lb", RG, s.name),
                          TRUE, "none", "report", 0)),
                 Idem(Ins("pip.BeginDelete", "destroy", T("pip", RG, s.name \o K("-pip")),
                          TRUE, "none", "report", 0)) >>
      [] OTHER -> << >>

(***************************************************************************)
(* The handlers of every resource kind.                                    *)
(***************************************************************************)
CreateProg(kind, p, c, g) ==
    CASE kind = "bucket" -> BucketCreate(p, c, g)
      [] kind = "network" -> NetworkCreate(p, c, g)
      [] kind = "instance" -> InstanceCreate(p, c, g)
      [] kind = "function" -> FunctionCreate(p, c, g)
      [] kind = "cluster" -> ClusterCreate(p, c, g)
      [] kind = "registry" -> RegistryCreate(p, c, g)
      [] kind = "secret" -> SecretCreate(p, c, g)
      [] kind = "dns" -> DNSRecordCreate(p, c, g)
      [] kind = "queue" -> QueueCreate(p, c, g)
      [] kind = "database" -> DatabaseCreate(p, c, g)
      [] kind = "container" -> ServerlessContainerCreate(p, c, g)
      [] kind = "lb" -> LoadBalancerCreate(p, c, g)

ReadProg(kind, s, c) ==
    CASE kind = "bucket" -> BucketRead(s, c)
      [] kind = "network" -> NetworkRead(s, c)
      [] kind = "instance" -> InstanceRead(s, c)
      [] kind = "function" -> FunctionRead(s, c)
      [] kind = "cluster" -> ClusterRead(s, c)
      [] kind = "registry" -> RegistryRead(s, c)
      [] kind = "secret" -> SecretRead(s, c)
      [] kind = "dns" -> DNSRecordRead(s, c)
      [] kind = "queue" -> QueueRead(s, c)
      [] kind = "database" -> DatabaseRead(s, c)
      [] kind = "container" -> ServerlessContainerRead(s, c)
      [] kind = "lb" -> LoadBalancerRead(s, c)

DeleteProg(kind, s, c) ==
    CASE kind = "bucket" -> BucketDelete(s, c)
      [] kind = "network" -> NetworkDelete(s, c)
      [] kind = "instance" -> InstanceDelete(s, c)
      [] kind = "function" -> FunctionDelete(s, c)
      [] kind = "cluster" -> ClusterDelete(s, c)
      [] kind = "registry" -> RegistryDelete(s, c)
      [] kind = "secret" -> SecretDelete(s, c)
      [] kind = "dns" -> DNSRecordDelete(s, c)
      [] kind = "queue" -> QueueDelete(s, c)
      [] kind = "database" -> DatabaseDelete(s, c)
      [] kind = "container" -> ServerlessContainerDelete(s, c)
      [] kind = "lb" -> LoadBalancerDelete(s, c)

\* kinds whose Update calls its own Delete and then its own Create
ReplaceKinds == {"secret", "dns"}

\* No resource type has an ImportState method (each implements Configure, Metadata,
\* Schema, Create, Read, Update and Delete only), so the plugin framework answers an
\* import request itself, with the error "Resource Import Not Implemented".
ImportProg == << Abort("Resource Import Not Implemented", "fail") >>

\* the calls an Update body makes itself, for the kinds that do not replace
UpdateProg(kind, p, s, c) ==
    CASE kind = "bucket" -> BucketUpdate(p, s, c)
      [] kind = "network" -> NetworkUpdate(p, s, c)
      [] kind = "instance" -> InstanceUpdate(p, s, c)
      [] kind = "function" -> FunctionUpdate(p, s, c)
      [] kind = "cluster" -> ClusterUpdate(p, s, c)
      [] kind = "registry" -> RegistryUpdate(p, s, c)
      [] kind = "queue" -> QueueUpdate(p, s, c)
      [] kind = "database" -> DatabaseUpdate(p, s, c)
      [] kind = "container" -> ServerlessContainerUpdate(p, s, c)
      [] kind = "lb" -> LoadBalancerUpdate(p, s, c)
      [] OTHER -> << >>

(***************************************************************************)
(* State.                                                                  *)
(***************************************************************************)
VARIABLES
    kind,      \* the resource kind of the one resource instance modelled
    cfg,       \* what Configure gave the resource: clients, environment, default region
    plan,      \* the desired state the host passes to Create and Update
    present,   \* the host holds a record of the resource
    record,    \* that record
    world,     \* sub-resources that exist in the backends
    ops,       \* long-running operations the backends have started
    status,    \* "idle", "running" (a handler is executing), "done" (it returned)
    op,        \* the lifecycle call being served
    phase,     \* the handler body being executed
    pc,        \* next instruction of that body
    sub,       \* "issue", "await" (in PollUntilDone), "poll" or "sleep" (in the loop)
    diags,     \* error diagnostics of the call being served, with the body that added each
    log,       \* backend calls and State.Set of the call being served, in order
    gen,       \* Create bodies started so far (indexes backend-assigned ids)
    calls,     \* lifecycle calls started so far
    faults,    \* transient backend failures so far
    hist,      \* outcome of every finished call, and whether the backends were left alone
               \* between the previous return and this one
    made,      \* sub-resources the Create behind the current record provisioned
    quiet,     \* nothing changed in the backends since the last call returned
    trail,     \* the latest status checks and sleeps of the wait loop being executed
    peer       \* a Create the host runs at the same time for a second resource instance
               \* of the same kind: its spec, status, next instruction and diagnostics

vars == << kind, cfg, plan, present, record, world, ops, status, op, phase, pc, sub,
           diags, log, gen, calls, faults, hist, made, quiet, trail, peer >>

\* the host runs no second Create
NoPeer == [plan |-> << >>, status |-> "none", pc |-> 1, diags |-> << >>]

\* what exists before the provider ever runs, in an account that has the defaults
Defaults ==
    {T("az", Empty, K("zones")), T("vpc", Empty, K("default")),
     T("subnet", Empty, K("default")), T("hostedzone", Empty, ZONE1)}

Init ==
    /\ kind \in Kinds
    /\ plan \in Plans(kind)
    /\ cfg \in Configs(kind)
    /\ world \in {{T("az", Empty, K("zones"))}, Defaults}
    /\ present = FALSE
    /\ record = BaseRec
    /\ ops = {}
    /\ status = "idle"
    /\ op = "none"
    /\ phase = "none"
    /\ pc = 1
    /\ sub = "issue"
    /\ diags = << >>
    /\ log = << >>
    /\ gen = 0
    /\ calls = 0
    /\ faults = 0
    /\ hist = << >>
    /\ made = << >>
    /\ quiet = TRUE
    /\ trail = << >>
    /\ peer = NoPeer

(***************************************************************************)
(* The interpreter.                                                        *)
(***************************************************************************)
\* the body being executed
CurProg ==
    CASE phase = "Create" -> CreateProg(kind, plan, cfg, gen)
      [] phase = "Read" -> ReadProg(kind, record, cfg)
      [] phase = "Update" -> UpdateProg(kind, plan, record, cfg)
      [] phase = "Delete" -> DeleteProg(kind, record, cfg)
      [] phase = "Import" -> ImportProg
      [] OTHER -> << >>

Running == {o.tgt : o \in {x \in ops : x.st = "running"}}

OpOf(t) == CHOOSE o \in ops : o.tgt = t

\* sub-resources a body brought into existence, in the order it did
RECURSIVE Provisioned(_)
Provisioned(lg) ==
    IF lg = << >> THEN << >>
    ELSE LET e == Head(lg)
         IN  (IF e.eff \in {"create", "new", "upsert"} /\ e.res = "ok" /\ e.fresh
              THEN << e.tgt >> ELSE << >>) \o Provisioned(Tail(lg))

\* the sub-resource that the call marked as main in a log provisioned
TerminalOf(lg) ==
    LET mains == {j \in 1..Len(lg) : lg[j].main /\ lg[j].res = "ok"}
    IN  IF mains = {} THEN NoTarget ELSE lg[CHOOSE j \in mains : TRUE].tgt

\* the provisioning calls a successful Create issued, in order, each with the name it provisions
\* under and whether the backend assigned that name
Steps(lg) ==
    LET sel == SelectSeq(lg, LAMBDA e : e.eff \in {"create", "new", "upsert"})
    IN  [j \in 1..Len(sel) |->
           [call |-> sel[j].call, tgt |-> sel[j].tgt, assigned |-> sel[j].eff = "new"]]

\* the wait on the operation of the last call issued is over: how the operation ended
Ended(lg, st) == [lg EXCEPT ![Len(lg)].ended = st]

\* answers the backend can give to a call
Results(i) ==
    CASE i.eff = "abort" -> {"abort"}
      [] i.eff \in {"set", "norm"} -> {"ok"}
      [] OTHER ->
           (IF ~i.valid THEN {"invalid"}
            ELSE CASE i.eff = "create" -> IF i.tgt \in world THEN {"exists"} ELSE {"ok"}
                   [] i.eff \in {"new", "upsert", "rpc"} -> {"ok"}
                   [] i.eff \in {"destroy", "get"} /\ i.idem -> {"ok"}
                   [] OTHER -> IF i.tgt \in world THEN {"ok"} ELSE {"notfound"})
           \cup (IF faults < MaxFaults THEN {"fault"} ELSE {})

\* resp.Diagnostics.AddError
Diag(i) == [msg |-> i.call, from |-> phase]

\* what the handler does with a failed call
OnError(i, res) ==
    LET h == i.onErr
    IN  CASE h = "fail" \/ (h = "exists" /\ res # "exists") ->
               [d |-> Append(diags, Diag(i)), pres |-> present, flow |-> "ret"]
          [] h = "exists" -> [d |-> diags, pres |-> present, flow |-> "next"]
          [] h = "return" -> [d |-> diags, pres |-> present, flow |-> "ret"]
          [] h = "report" -> [d |-> Append(diags, Diag(i)), pres |-> present, flow |-> "next"]
          [] h = "ignore" -> [d |-> diags, pres |-> present, flow |-> "next"]
          [] h = "remove" -> [d |-> diags, pres |-> FALSE, flow |-> "ret"]
          [] h = "removeFail" -> [d |-> Append(diags, Diag(i)), pres |-> FALSE, flow |-> "ret"]

\* Update of a replacing kind: r.Delete(...); if delResp.Diagnostics.HasError() { return };
\* r.Create(...).  TRUE when the Delete body has just returned and the Create body starts.
Replaces(d, flow) == flow = "ret" /\ op = "Update" /\ phase = "Delete" /\ d = << >>

\* The handler moves on.  flow: "next" instruction, "await", "poll", "sleep", or
\* "ret" (the body returns).  When the Delete body that a replacing Update called
\* returns without an error the Create body starts; when it returns with one the
\* Update returns.  When the handler itself returns, the host drops the record
\* after a Delete without an error.
Apply(d, pres, rec, flow, skip, lg) ==
    LET replace == Replaces(d, flow)
        fin == flow = "ret" /\ ~replace
        pres2 == IF fin /\ op = "Delete" /\ d = << >> THEN FALSE ELSE pres
        rec2 == IF pres2 THEN rec ELSE BaseRec
        created == op = "Create" /\ pres2
    IN  /\ diags' = d
        /\ present' = pres2
        /\ record' = rec2
        /\ log' = lg
        /\ pc' = CASE flow = "next" -> pc + 1 + skip [] replace -> 1 [] OTHER -> pc
        /\ sub' = IF flow \in {"await", "poll", "sleep"} THEN flow ELSE "issue"
        /\ phase' = IF replace THEN "Create" ELSE phase
        /\ gen' = IF replace THEN gen + 1 ELSE gen
        /\ status' = IF fin THEN "done" ELSE status
        /\ hist' = IF fin
                   THEN Append(hist, [op |-> op, ok |-> d = << >>, present |-> pres2, rec |-> rec2,
                                      quiet |-> quiet,
                                      plan |-> IF created THEN << plan >> ELSE << >>,
                                      steps |-> IF created THEN Steps(lg) ELSE << >>,
                                      terminal |-> IF created THEN TerminalOf(lg)
                                                   ELSE NoTarget])
                   ELSE hist
        /\ made' = IF fin /\ op = "Create" /\ pres2 THEN Provisioned(lg) ELSE made
        /\ quiet' = IF fin THEN TRUE ELSE quiet
        /\ UNCHANGED peer

\* the host calls a handler
Call(o, p) ==
    /\ status # "running"
    /\ calls < MaxCalls
    /\ calls' = calls + 1
    /\ status' = "running"
    /\ op' = o
    /\ phase' = IF o = "Update" THEN (IF kind \in ReplaceKinds THEN "Delete" ELSE "Update") ELSE o
    /\ plan' = p
    /\ gen' = IF o = "Create" THEN gen + 1 ELSE gen
    /\ pc' = 1
    /\ sub' = "issue"
    /\ diags' = << >>
    /\ log' = << >>
    /\ trail' = << >>
    /\ UNCHANGED << kind, cfg, present, record, world, ops, faults, hist, made, quiet, peer >>

Create == ~present /\ Call("Create", plan)

Read == present /\ Call("Read", plan)

Update == present /\ \E p \in Plans(kind) \ {plan} : Call("Update", p)

Delete == present /\ Call("Delete", plan)

\* the host asks to import the resource by its id and compares the outcome with the
\* record it holds (ImportState, ImportStateVerify)
Import == present /\ Call("Import", plan)

\* the handler executes its next instruction: a backend call, a give-up, or State.Set
Issue ==
    /\ status = "running"
    /\ sub = "issue"
    /\ pc <= Len(CurProg)
    /\ LET i == CurProg[pc]
       IN  \E res \in Results(i) :
             LET e == [call |-> i.call, eff |-> i.eff, tgt |-> i.tgt, phase |-> phase,
                       res |-> res, fresh |-> i.tgt \notin world, busy |-> Running,
                       main |-> i.main, arg |-> i.arg, ended |-> "none"]
                 lg == IF i.eff \in {"abort", "norm"} THEN log ELSE Append(log, e)
                 started == res = "ok" /\ i.async
                 what == IF i.eff = "destroy" THEN "destroy" ELSE "create"
                 err == OnError(i, res)
             IN  /\ faults' = IF res = "fault" THEN faults + 1 ELSE faults
                 /\ world' = CASE res = "ok" /\ i.eff \in {"create", "new", "upsert"} ->
                                    world \cup {i.tgt}
                               [] res = "ok" /\ i.eff = "destroy" /\ ~i.async ->
                                    world \ {i.tgt}
                               [] OTHER -> world
                 /\ ops' = IF started
                           THEN {o \in ops : o.tgt # i.tgt}
                                \cup {[tgt |-> i.tgt, what |-> what, st |-> "running",
                                       fresh |-> i.tgt \notin world]}
                           ELSE ops
                 /\ CASE res # "ok" -> Apply(err.d, err.pres, record, err.flow, 0, lg)
                      [] i.eff = "set" ->
                           \* only Create's own response reaches the host; the response
                           \* of the Create that Update calls is dropped
                           IF op = "Create" THEN Apply(diags, TRUE, i.rec, "next", 0, lg)
                           ELSE Apply(diags, present, record, "next", 0, lg)
                      [] started /\ i.wait = "sdk" -> Apply(diags, present, record, "await", 0, lg)
                      [] started /\ i.wait = "loop" -> Apply(diags, present, record, "poll", 0, lg)
                      [] OTHER -> Apply(diags, present, record, "next", i.skip, lg)
    /\ trail' = << >>
    /\ UNCHANGED << kind, cfg, plan, op, calls >>

\* poller.PollUntilDone returns once the operation is terminal
Await ==
    /\ status = "running"
    /\ sub = "await"
    /\ LET i == CurProg[pc]
           o == OpOf(i.tgt)
           err == OnError(i, "failed")
       IN  /\ o.st # "running"
           /\ ops' = ops \ {o}
           /\ IF o.st = "done" THEN Apply(diags, present, record, "next", i.skip, Ended(log, o.st))
              ELSE Apply(err.d, err.pres, record, err.flow, 0, Ended(log, o.st))
    /\ trail' = << >>
    /\ UNCHANGED << kind, cfg, plan, op, calls, world, faults >>

\* seconds between two status checks: time.Sleep(5 * time.Second)
PollInterval == 5

\* a status check and what it observed ("error": the check itself failed)
Checked(saw) == [ev |-> "check", saw |-> saw, secs |-> 0]

\* a sleep and its length
Slept(secs) == [ev |-> "sleep", saw |-> "none", secs |-> secs]

\* the trail keeps the two latest events of the loop
Trail(e) == IF trail = << >> THEN << e >> ELSE << trail[Len(trail)], e >>

\* the loop written without the sleep: the next check follows at once
PollBackToBack ==
    /\ status = "running"
    /\ sub = "poll"
    /\ LET i == CurProg[pc]
           o == OpOf(i.tgt)
       IN  \/ /\ faults < MaxFaults
              /\ faults' = faults + 1
              /\ Apply(Append(diags, Diag(i)), present, record, "ret", 0, log)
              /\ trail' = Trail(Checked("error"))
              /\ UNCHANGED ops
           \/ /\ o.st = "running"
              /\ Apply(diags, present, record, "poll", 0, log)
              /\ trail' = Trail(Checked("running"))
              /\ UNCHANGED << ops, faults >>
           \/ /\ o.st # "running"
              /\ ops' = ops \ {o}
              /\ Apply(diags, present, record, "next", 0, Ended(log, o.st))
              /\ trail' = Trail(Checked(o.st))
              /\ UNCHANGED faults
    /\ UNCHANGED << kind, cfg, plan, op, calls, world >>

\* one turn of "for { oper := Operations.Get(); if err { fail }; if done { break }; sleep }"
Poll ==
    /\ status = "running"
    /\ sub = "poll"
    /\ LET i == CurProg[pc]
           o == OpOf(i.tgt)
       IN  \/ /\ faults < MaxFaults
              /\ faults' = faults + 1
              /\ Apply(Append(diags, Diag(i)), present, record, "ret", 0, log)
              /\ trail' = Trail(Checked("error"))
              /\ UNCHANGED ops
           \/ /\ o.st = "running"
              /\ Apply(diags, present, record, "sleep", 0, log)
              /\ trail' = Trail(Checked("running"))
              /\ UNCHANGED << ops, faults >>
           \/ \* the loop leaves on a finished operation without looking at its error
              /\ o.st # "running"
              /\ ops' = ops \ {o}
              /\ Apply(diags, present, record, "next", 0, Ended(log, o.st))
              /\ trail' = Trail(Checked(o.st))
              /\ UNCHANGED faults
    /\ UNCHANGED << kind, cfg, plan, op, calls, world >>

\* time.Sleep(5 * time.Second)
Sleep ==
    /\ status = "running"
    /\ sub = "sleep"
    /\ Apply(diags, present, record, "poll", 0, log)
    /\ trail' = Trail(Slept(PollInterval))
    /\ UNCHANGED << kind, cfg, plan, op, calls, world, ops, faults >>

\* the body reaches its end
Return ==
    /\ status = "running"
    /\ sub = "issue"
    /\ pc > Len(CurProg)
    /\ Apply(diags, present, record, "ret", 0, log)
    /\ trail' = << >>
    /\ UNCHANGED << kind, cfg, plan, op, calls, world, ops, faults >>

(***************************************************************************)
(* The backends and the world around them.                                 *)
(***************************************************************************)
\* a long-running operation completes
OpSucceeds ==
    \E o \in ops :
        /\ o.st = "running"
        /\ ops' = (ops \ {o}) \cup {[o EXCEPT !.st = "done"]}
        /\ world' = IF o.what = "destroy" THEN world \ {o.tgt} ELSE world
        /\ UNCHANGED << kind, cfg, plan, present, record, status, op, phase, pc, sub,
                        diags, log, gen, calls, faults, hist, made, quiet, trail, peer >>

\* a long-running operation fails
OpFails ==
    \E o \in ops :
        /\ o.st = "running"
        /\ faults < MaxFaults
        /\ faults' = faults + 1
        /\ ops' = (ops \ {o}) \cup {[o EXCEPT !.st = "failed"]}
        /\ world' = IF o.what = "create" /\ o.fresh THEN world \ {o.tgt} ELSE world
        /\ quiet' = FALSE
        /\ UNCHANGED << kind, cfg, plan, present, record, status, op, phase, pc, sub,
                        diags, log, gen, calls, hist, made, trail, peer >>

\* the sub-resource the record's id names
Terminal == TerminalOf(log)

\* somebody removes the resource behind the record by other means
DeleteOutOfBand ==
    /\ status = "done"
    /\ present
    /\ hist[Len(hist)].op = "Create"
    /\ Terminal \in world
    /\ Terminal \notin Running
    /\ world' = world \ {Terminal}
    /\ quiet' = FALSE
    /\ UNCHANGED << kind, cfg, plan, present, record, ops, status, op, phase, pc, sub,
                    diags, log, gen, calls, faults, hist, made, trail, peer >>

Next ==
    \/ Create
    \/ Read
    \/ Update
    \/ Delete
    \/ Issue
    \/ Await
    \/ Poll
    \/ Sleep
    \/ Return
    \/ OpSucceeds
    \/ OpFails
    \/ DeleteOutOfBand

Spec == Init /\ [][Next]_vars

\* a handler that can take a step takes it; the backends owe no progress
FairSpec ==
    Spec /\ WF_vars(Issue) /\ WF_vars(Await) /\ WF_vars(Poll) /\ WF_vars(Sleep) /\ WF_vars(Return)

(***************************************************************************)
(* A second specification: one Create, Delete and re-Create of a resource  *)
(* whose spec exercises the naming and size rules, in an account where     *)
(* another resource of the same provider may already live.                 *)
(***************************************************************************)
\* a name longer than a storage-account name may be, with an upper-case letter
LONGNAME == [i \in 1..(AccountNameLimit + 1) |-> IF i = 1 THEN "N" ELSE "a"]

\* values of the "size" attribute: unset, the generic classes, one in another case,
\* a backend-native type
Sizes == {Empty, SMALL, MEDIUM, LARGE, <<"S", "m", "a", "l", "l">>, <<"c", "5", ".", "x">>}

WideKinds == {"bucket", "queue", "instance", "dns"}

WidePlans(k) ==
    [name : CASE k = "bucket" -> {NAME1, LONGNAME}
              [] k = "queue" -> {NAME1, NAME1 \o FIFO, LONGNAME}
              [] k = "dns" -> {NAME1, NAME1 \o K(".") \o ZONE1 \o K(".")}
              [] OTHER -> {NAME1},
     type : IF k = "instance" THEN {AWS, AZURE, GCP} ELSE {AWS, AZURE},
     region : {Empty},
     cidr : {Empty},
     flag : IF k \in {"bucket", "queue"} THEN BOOLEAN ELSE {FALSE},
     image : IF k = "instance" THEN {K("img")} ELSE {Empty},
     zone : IF k = "dns" THEN {ZONE1} ELSE {Empty},
     size : IF k = "instance" THEN Sizes ELSE {Empty},
     engine : {Empty}]

\* another live resource of the provider: an abstract_function on azure
PeerPlan ==
    [name |-> NAME1, type |-> AZURE, region |-> Empty, cidr |-> Empty, flag |-> FALSE,
     image |-> Empty, zone |-> Empty, size |-> Empty, engine |-> Empty]

\* the sub-resources its Create provisioned and its record depends on
PeerNeeds ==
    LET prog == FunctionCreate(PeerPlan, [mode |-> "full", region |-> Empty], 0)
    IN  {prog[j].tgt : j \in {k \in 1..Len(prog) : prog[k].eff \in {"create", "upsert"}}}

WideInit ==
    /\ kind \in WideKinds
    /\ plan \in WidePlans(kind)
    /\ cfg \in Configs(kind)
    /\ world \in {Defaults, Defaults \cup PeerNeeds}
    /\ present = FALSE
    /\ record = BaseRec
    /\ ops = {}
    /\ status = "idle"
    /\ op = "none"
    /\ phase = "none"
    /\ pc = 1
    /\ sub = "issue"
    /\ diags = << >>
    /\ log = << >>
    /\ gen = 0
    /\ calls = 0
    /\ faults = 0
    /\ hist = << >>
    /\ made = << >>
    /\ quiet = TRUE
    /\ trail = << >>
    /\ peer = NoPeer

WideNext ==
    \/ Create
    \/ Delete
    \/ Import
    \/ Issue
    \/ Await
    \/ Return
    \/ OpSucceeds
    \/ OpFails

WideSpec == WideInit /\ [][WideNext]_vars

(***************************************************************************)
(* A third specification: the host creates two DNS records of one zone at  *)
(* the same time.  Each Create runs its own handler body; the two bodies   *)
(* share the backends and nothing else.                                    *)
(***************************************************************************)
NAME2 == <<"n", "2">>

\* backends whose Create makes sure of the zone before it writes the record: azure
\* with CreateOrUpdate, gcp with a lookup and, if that fails, a creation
PairPlans ==
    [name : {NAME1},
     type : {AZURE, GCP},
     region : {Empty},
     cidr : {Empty},
     flag : {FALSE},
     image : {Empty},
     zone : {ZONE1},
     size : {Empty},
     engine : {Empty}]

\* the body of the second Create
PeerProg == CreateProg(kind, peer.plan, cfg, 0)

\* the second record: same backend and zone, another name; the zone may or may not
\* exist yet; the backends return no transient failures
PairInit ==
    /\ kind = "dns"
    /\ plan \in PairPlans
    /\ cfg \in Configs(kind)
    /\ world \in {{T("az", Empty, K("zones"))},
                  {T("az", Empty, K("zones")), T("gzone", Empty, ZONE1)}}
    /\ present = FALSE
    /\ record = BaseRec
    /\ ops = {}
    /\ status = "idle"
    /\ op = "none"
    /\ phase = "none"
    /\ pc = 1
    /\ sub = "issue"
    /\ diags = << >>
    /\ log = << >>
    /\ gen = 0
    /\ calls = 0
    /\ faults = MaxFaults
    /\ hist = << >>
    /\ made = << >>
    /\ quiet = TRUE
    /\ trail = << >>
    /\ peer = [NoPeer EXCEPT !.plan = [plan EXCEPT !.name = NAME2], !.status = "idle"]

\* the host calls Create for the second record
PeerCreate ==
    /\ peer.status = "idle"
    /\ peer' = [peer EXCEPT !.status = "running"]
    /\ UNCHANGED << kind, cfg, plan, present, record, world, ops, status, op, phase, pc, sub,
                    diags, log, gen, calls, faults, hist, made, quiet, trail >>

\* the second body executes its next instruction; every backend call of a DNS record's
\* Create is synchronous
PeerIssue ==
    /\ peer.status = "running"
    /\ peer.pc <= Len(PeerProg)
    /\ LET i == PeerProg[peer.pc]
       IN  \E res \in Results(i) :
             LET err == OnError(i, res)
                 flow == IF res = "ok" THEN "next" ELSE err.flow
                 failed == res # "ok" /\ err.d # diags
             IN  /\ world' = IF res = "ok" /\ i.eff \in {"create", "new", "upsert"}
                              THEN world \cup {i.tgt} ELSE world
                 /\ peer' = [peer EXCEPT
                               !.diags = IF failed
                                         THEN Append(@, [msg |-> i.call, from |-> "Create"])
                                         ELSE @,
                               !.pc = CASE flow # "next" -> @
                                        [] res = "ok" -> @ + 1 + i.skip
                                        [] OTHER -> @ + 1,
                               !.status = IF flow = "ret" THEN "done" ELSE @]
    /\ UNCHANGED << kind, cfg, plan, present, record, ops, status, op, phase, pc, sub,
                    diags, log, gen, calls, faults, hist, made, quiet, trail >>

\* the second body reaches its end
PeerReturn ==
    /\ peer.status = "running"
    /\ peer.pc > Len(PeerProg)
    /\ peer' = [peer EXCEPT !.status = "done"]
    /\ UNCHANGED << kind, cfg, plan, present, record, world, ops, status, op, phase, pc, sub,
                    diags, log, gen, calls, faults, hist, made, quiet, trail >>

PairNext ==
    \/ Create
    \/ Issue
    \/ Return
    \/ PeerCreate
    \/ PeerIssue
    \/ PeerReturn

PairSpec == PairInit /\ [][PairNext]_vars

(***************************************************************************)
(* A fourth specification: the provider is started anew between lifecycle  *)
(* calls, each time with the clients that its configuration then yields.   *)
(***************************************************************************)
\* Configure(ctx, req, resp): the resource of the new provider process takes its clients
\* from the provider data; no lifecycle call has been served by it yet
Configure ==
    /\ status # "running"
    /\ \E c \in Configs(kind) \ {cfg} : cfg' = c
    /\ status' = "idle"
    /\ UNCHANGED << kind, plan, present, record, world, ops, op, phase, pc, sub,
                    diags, log, gen, calls, faults, hist, made, quiet, trail, peer >>

\* as Init, in an account that has the defaults
RestartInit ==
    /\ kind \in Kinds
    /\ plan \in Plans(kind)
    /\ cfg \in Configs(kind)
    /\ world = Defaults
    /\ present = FALSE
    /\ record = BaseRec
    /\ ops = {}
    /\ status = "idle"
    /\ op = "none"
    /\ phase = "none"
    /\ pc = 1
    /\ sub = "issue"
    /\ diags = << >>
    /\ log = << >>
    /\ gen = 0
    /\ calls = 0
    /\ faults = 0
    /\ hist = << >>
    /\ made = << >>
    /\ quiet = TRUE
    /\ trail = << >>
    /\ peer = NoPeer

RestartNext ==
    \/ Configure
    \/ Create
    \/ Read
    \/ Delete
    \/ Issue
    \/ Await
    \/ Poll
    \/ Sleep
    \/ Return
    \/ OpSucceeds

RestartSpec == RestartInit /\ [][RestartNext]_vars

(***************************************************************************)
(* Properties.                                                             *)
(***************************************************************************)
Supported == {AWS, AZURE, GCP}

Done(o) == status = "done" /\ op = o

\* the call before the one that has just returned
Before == hist[Len(hist) - 1]

Last == hist[Len(hist)]

\* the call that has just returned came right after a Create that succeeded
AfterCreate == Len(hist) >= 2 /\ Before.op = "Create" /\ Before.ok /\ Before.present

Reverse(q) == [j \in 1..Len(q) |-> q[Len(q) + 1 - j]]

\* targets of the destroy calls a handler issued, in order
RECURSIVE DestroyCalls(_)
DestroyCalls(lg) ==
    IF lg = << >> THEN << >>
    ELSE (IF Head(lg).eff = "destroy" THEN << Head(lg).tgt >> ELSE << >>)
         \o DestroyCalls(Tail(lg))

\* C1: a Create that fails at its k-th step has issued destroy calls for exactly the
\* sub-resources its steps 1..k-1 provisioned, last-created first, when it reports
\* the failure.
C1_FailedCreateRollsBack ==
    (Done("Create") /\ diags # << >>) => DestroyCalls(log) = Reverse(Provisioned(log))

\* C2: a Read right after a successful Create, with the backends left alone in
\* between and no call failing, keeps the record and every attribute Create wrote.
C2_ReadAfterCreateKeepsRecord ==
    (Done("Read") /\ AfterCreate /\ Last.quiet /\ faults = 0)
        => (present /\ record = Before.rec)

\* C3: a Read on a record whose backend resource was deleted out-of-band removes
\* the record and reports no error diagnostic.
C3_ReadDropsDeletedSilently ==
    (Done("Read") /\ AfterCreate /\ ~Last.quiet /\ faults = 0)
        => (~present /\ diags = << >>)

\* C4: a Delete on a record whose terminal sub-resource is already absent reports
\* no error diagnostic and issues no backend call other than existence checks.
C4_DeleteOfAbsentSucceeds ==
    (Done("Delete") /\ AfterCreate /\ ~Last.quiet /\ faults = 0)
        => (diags = << >> /\ \A j \in 1..Len(log) : log[j].eff = "get")

\* C5: a Create whose backend tag is outside {aws, azure, gcp} reports an error
\* diagnostic, issues no backend call and writes no record.
C5_CreateRejectsUnknownTag ==
    (Done("Create") /\ plan.type \notin Supported)
        => (diags # << >> /\ log = << >> /\ ~present)

\* C6: a Read, Update or Delete whose record or spec carries a backend tag outside
\* {aws, azure, gcp} reports an error diagnostic and issues no backend call.
C6_OthersRejectUnknownTag ==
    /\ (Done("Update") /\ plan.type \notin Supported) => (diags # << >> /\ log = << >>)
    /\ (status = "done" /\ op \in {"Read", "Delete"} /\ Len(hist) >= 2
            /\ Before.present /\ Before.rec.type \notin Supported)
         => (diags # << >> /\ log = << >>)

\* C7: every Update runs the Delete body against the stored record and then the
\* Create body with the new spec; the Create body is not run when the Delete body
\* reported an error; the Update body issues no call of its own.
C7_UpdateIsDeleteThenCreate ==
    Done("Update")
        => /\ phase \in {"Delete", "Create"}
           /\ phase = "Delete" <=> (\E j \in 1..Len(diags) : diags[j].from = "Delete")
           /\ \A j \in 1..Len(log) : log[j].phase \in {"Delete", "Create"}
           /\ \A j, k \in 1..Len(log) :
                (log[j].phase = "Create" /\ log[k].phase = "Delete") => k < j

\* a handler is inside the hand-written wait loop
InLoop == status = "running" /\ sub \in {"poll", "sleep"}

\* C8: a wait on an asynchronous operation ends after finitely many status checks
\* even if the operation never becomes terminal: no call polls forever.
C8_EveryWaitEnds == InLoop ~> ~InLoop

\* C9: during Create no later step is issued, and no record is written, while an
\* operation started by an earlier step of the same Create is still in progress.
C9_StepsWaitForEarlierOps ==
    (op = "Create" /\ status \in {"running", "done"})
        => \A j, k \in 1..Len(log) : k < j => log[k].tgt \notin log[j].busy

\* C10: the destroy calls of a Delete are exactly the sub-resources the Create
\* provisioned, each once, last-created first.
C10_DeleteReversesCreate ==
    (Done("Delete") /\ AfterCreate /\ Last.quiet /\ faults = 0)
        => DestroyCalls(log) = Reverse(made)

\* C11: Create writes a record if and only if it reports no error diagnostic; a record
\* is written only when every mutating call of the Create was answered with success
\* (or with "already exists" where the handler accepts that).
C11_RecordIffNoError ==
    Done("Create")
        => /\ present <=> diags = << >>
           /\ present => \A j \in 1..Len(log) :
                            log[j].eff # "get" => log[j].res \in {"ok", "exists"}

\* a Create whose later step failed after an earlier one succeeded has returned
C11_Witness ==
    /\ Done("Create") /\ ~present /\ diags # << >>
    /\ Len(log) >= 2 /\ log[1].res = "ok" /\ log[Len(log)].res = "fault"

\* C12: when an asynchronous operation that Create waited for ended in failure,
\* Create reports an error diagnostic and writes no record.
C12_FailedOperationFailsCreate ==
    (Done("Create") /\ \E j \in 1..Len(log) : log[j].ended = "failed")
        => (diags # << >> /\ ~present)

\* C13: a Read whose lookup failed for a transient reason keeps the record and reports
\* an error; a Read removes the record only after a lookup answered "not found".
C13_ReadKeepsRecordOnOtherErrors ==
    Done("Read")
        => /\ (\E j \in 1..Len(log) : log[j].res = "fault") => (present /\ diags # << >>)
           /\ ~present => \E j \in 1..Len(log) : log[j].res = "notfound"

\* C14: every destroy call of a Delete that failed for a reason other than the target
\* being absent, at once or in the operation it started, has an error diagnostic.
C14_TeardownFailuresReported ==
    Done("Delete")
        => \A j \in 1..Len(log) :
             (log[j].eff = "destroy" /\ (log[j].res = "fault" \/ log[j].ended = "failed"))
                 => \E k \in 1..Len(diags) : diags[k].msg = log[j].call

\* the provider, not the backend, chose every name of these steps
NamesChosen(steps) == \A j \in 1..Len(steps) : ~steps[j].assigned

\* C17: two successful Creates with the same spec and provider configuration issue
\* the same provisioning steps under the same names and write the same record id
\* (identifiers that the backend assigns aside).
C17_CreateIsDeterministic ==
    \A i, j \in 1..Len(hist) :
        (/\ i < j
         /\ hist[i].op = "Create" /\ hist[j].op = "Create"
         /\ hist[i].ok /\ hist[i].present /\ hist[j].ok /\ hist[j].present
         /\ hist[i].plan = hist[j].plan
         /\ NamesChosen(hist[i].steps) /\ NamesChosen(hist[j].steps))
            => (hist[i].steps = hist[j].steps /\ hist[i].rec.id = hist[j].rec.id)

\* C15: a lifecycle call on one resource never removes a backend sub-resource that
\* another live record of the provider depends on.
C15_OtherRecordsKeepTheirResources ==
    (T("site", RG, NAME1) \in world) => PeerNeeds \subseteq world

\* C16: each normalization gives, applied to its own output, that output again: the
\* storage-account name, the machine size, the FIFO queue name, the qualified DNS name.
C16_NormalizationsAreFixedPoints ==
    (Done("Create") /\ present)
        => /\ AccountName(record.account) = record.account
           /\ kind = "instance" => MachineType(record.type, record.size) = record.size
           /\ (kind = "queue" /\ record.type = AWS)
                => QueueName(record.name, plan.flag) = record.name
           /\ kind = "dns" => Fqdn(Fqdn(plan.name, plan.zone), plan.zone)
                                   = Fqdn(plan.name, plan.zone)

\* a Create has written a storage-account name that differs from the name it was given
C16_Witness ==
    Done("Create") /\ present /\ record.account # Empty /\ record.account # plan.name

\* the size the compute call of a Create asked for, and the size in its record
SizeIs(want) ==
    /\ \A j \in 1..Len(log) : log[j].main => log[j].arg = want
    /\ record.size = want

\* C18 as stated: small, medium and large map to the backend's concrete sizes, and
\* any other size that is set reaches the compute call and the record unchanged.
C18_SizeClassesMapElsePass ==
    (Done("Create") /\ present /\ kind = "instance" /\ plan.size # Empty)
        => SizeIs(CASE plan.size = SMALL -> SizeTable(plan.type)[1]
                    [] plan.size = MEDIUM -> SizeTable(plan.type)[2]
                    [] plan.size = LARGE -> SizeTable(plan.type)[3]
                    [] OTHER -> plan.size)

\* C18 amended: small, medium and large in any letter case, and an unset size, which
\* counts as small, map to the backend's concrete sizes; any other size reaches the
\* compute call and the record unchanged.
C18_SizeClassesFoldCase ==
    (Done("Create") /\ present /\ kind = "instance")
        => SizeIs(CASE plan.size = Empty \/ EqualFold(plan.size, SMALL) -> SizeTable(plan.type)[1]
                    [] EqualFold(plan.size, MEDIUM) -> SizeTable(plan.type)[2]
                    [] EqualFold(plan.size, LARGE) -> SizeTable(plan.type)[3]
                    [] OTHER -> plan.size)

\* an instance was created from a generic size written with a capital letter
C18_Witness ==
    Done("Create") /\ present /\ kind = "instance" /\ plan.size = <<"S", "m", "a", "l", "l">>

\* names of the calls a handler issued that change the backend, in order
MutatingCalls(lg) ==
    LET sel == SelectSeq(lg, LAMBDA e : e.eff \notin {"get", "set"})
    IN  [j \in 1..Len(sel) |-> sel[j].call]

BucketAwsRecord ==
    diags = << >> => /\ present
                     /\ record.id = plan.name /\ record.name = plan.name /\ record.type = AWS

\* C19 as stated: Create of a bucket on aws issues exactly one mutating backend call,
\* and on success the record has the spec's name as id and name, and type aws.
C19_BucketAwsOneCall ==
    (Done("Create") /\ kind = "bucket" /\ plan.type = AWS /\ cfg.mode = "full")
        => (Len(MutatingCalls(log)) = 1 /\ BucketAwsRecord)

\* C19 amended: Create of a bucket on aws issues s3.CreateBucket and, when versioning
\* is asked for and that call succeeded, s3.PutBucketVersioning, and nothing else
\* (no call at all without an S3 client); on success the record is as stated.
C19_BucketAwsCalls ==
    (Done("Create") /\ kind = "bucket" /\ plan.type = AWS)
        => /\ MutatingCalls(log) =
                 (CASE cfg.mode = "nil" -> << >>
                    [] plan.flag /\ log[1].res = "ok" ->
                         << "s3.CreateBucket", "s3.PutBucketVersioning" >>
                    [] OTHER -> << "s3.CreateBucket" >>)
           /\ BucketAwsRecord

\* a versioned bucket was created on aws
C19_Witness ==
    Done("Create") /\ kind = "bucket" /\ plan.type = AWS /\ plan.flag /\ present

\* names of the provisioning calls a handler issued, in order
ProvisioningCalls(lg) ==
    LET sel == SelectSeq(lg, LAMBDA e : e.eff \in {"create", "new", "upsert"})
    IN  [j \in 1..Len(sel) |-> sel[j].call]

\* a successful Create of an azure instance of size small that found no subnet
SmallAzureInstanceFromScratch ==
    /\ Done("Create") /\ present /\ kind = "instance"
    /\ plan.type = AZURE /\ plan.size = SMALL
    /\ \E j \in 1..Len(log) : log[j].call = "subnet.Get" /\ log[j].res = "notfound"

\* C20: such a Create issued exactly six provisioning calls: resource group, virtual
\* network, subnet, public address, network interface, virtual machine, in that
\* order, and asked for the virtual machine in size Standard_B1s.
C20_AzureInstanceSixCalls ==
    SmallAzureInstanceFromScratch
        => /\ ProvisioningCalls(log) =
                 << "rg.CreateOrUpdate", "vnet.BeginCreateOrUpdate",
                    "subnet.BeginCreateOrUpdate", "pip.BeginCreateOrUpdate",
                    "nic.BeginCreateOrUpdate", "vm.BeginCreateOrUpdate" >>
           /\ \A j \in 1..Len(log) : log[j].main => log[j].arg = K("Standard_B1s")

\* the virtual machine of such a Create was asked for
C20_Witness ==
    SmallAzureInstanceFromScratch /\ \E j \in 1..Len(log) : log[j].main /\ log[j].res = "ok"

\* positions of the provisioning calls in a handler's log
ProvisioningAt(lg) == {j \in 1..Len(lg) : lg[j].eff \in {"create", "new", "upsert"}}

\* positions of the existence checks on the terminal sub-resource that the handler made
\* after its last provisioning call and before it wrote the record
ChecksBeforeRecord(lg) ==
    {j \in 1..Len(lg) :
        /\ lg[j].eff = "get" /\ lg[j].tgt = Terminal
        /\ \A k \in ProvisioningAt(lg) : k < j
        /\ \E k \in 1..Len(lg) : lg[k].eff = "set" /\ j < k}

\* C21: a Create whose provisioning steps all succeeded performed exactly one existence
\* check on the terminal sub-resource after the last provisioning step and before it
\* wrote the record.
C21_CreateVerifiesTerminalOnce ==
    (Done("Create") /\ present /\ \A j \in ProvisioningAt(log) : log[j].res = "ok")
        => Cardinality(ChecksBeforeRecord(log)) = 1

\* C22: importing a bucket by its id right after its Create reports no error and yields
\* a record equal, attribute for attribute, to the record that Create wrote.
C22_ImportGivesCreatesRecord ==
    (Done("Import") /\ kind = "bucket" /\ AfterCreate)
        => (diags = << >> /\ present /\ record = Before.rec)

\* kinds of sub-resource a Create needs in place before it provisions its own: the Azure
\* resource group, virtual network and subnet, the GCP managed zone, the GCP secret container
PrerequisiteSubs == {"rg", "vnet", "subnet", "gzone", "gsecret"}

\* C23: a prerequisite that already exists is reused: no Create ends with an error
\* diagnostic for a prerequisite that the backend answered "already exists" for.
C23_ExistingPrerequisiteReused ==
    Done("Create")
        => \A j \in 1..Len(log) :
             (log[j].tgt[1] \in PrerequisiteSubs /\ log[j].res = "exists")
                 => \A k \in 1..Len(diags) : diags[k].msg # log[j].call

\* C24: Delete issues no destroy call, and does not return, while the operation that an
\* earlier destroy call of the same Delete started is still in progress.
C24_DeleteWaitsForDestroys ==
    (op = "Delete" /\ status \in {"running", "done"})
        => /\ \A j, k \in 1..Len(log) :
                (j < k /\ log[j].eff = "destroy" /\ log[k].eff = "destroy")
                    => log[j].tgt \notin log[k].busy
           /\ status = "done"
                => \A j \in 1..Len(log) : log[j].eff = "destroy" => log[j].tgt \notin Running

\* the entry is a backend call that creates, changes or destroys something
Mutating(e) == e.eff \in {"create", "new", "upsert", "modify", "destroy"}

\* two entries of a log are the same call on the same sub-resource
SameCall(e, f) == e.call = f.call /\ e.eff = f.eff /\ e.tgt = f.tgt

\* C25: within one lifecycle call no mutating backend call is issued twice on the same
\* sub-resource, and no call that failed, at once or in the operation it started, is
\* issued again.
C25_NoCallIsRetried ==
    \A j, k \in 1..Len(log) :
        (j < k /\ SameCall(log[j], log[k]))
            => /\ ~Mutating(log[j])
               /\ log[j].res = "ok" /\ log[j].ended # "failed"

\* a handler went on to another backend call after a mutating call of it had failed
C25_Witness ==
    \E j, k \in 1..Len(log) :
        /\ j < k /\ Mutating(log[j]) /\ Mutating(log[k])
        /\ log[j].res = "fault" \/ log[j].ended = "failed"

\* the record is as it was when the call that has just returned began
RecordKept == present /\ Len(hist) >= 2 /\ record = Before.rec

\* C26 as stated: a Read issues exactly one backend call, a lookup, and its only effect
\* is to remove the record.
C26_ReadIssuesOneLookup ==
    (Done("Read") /\ cfg.mode = "full")
        => /\ Len(log) = 1 /\ log[1].eff = "get"
           /\ ~present \/ RecordKept

\* C26 amended: a Read issues at most two backend calls, each of them a lookup, never a
\* creating, updating or destroying call, and its only effect is to remove the record.
C26_ReadIssuesOnlyLookups ==
    Done("Read")
        => /\ Len(log) <= 2
           /\ \A j \in 1..Len(log) : log[j].eff = "get"
           /\ ~present \/ RecordKept

\* a Read has made two lookups and kept the record
C26_Witness == Done("Read") /\ Len(log) = 2 /\ RecordKept

\* C27: a Delete that returns without an error diagnostic leaves the terminal
\* sub-resource that the record named neither in the backend nor being destroyed.
C27_QuietDeleteRemovesTerminal ==
    (Done("Delete") /\ AfterCreate /\ diags = << >>)
        => Before.terminal \notin world

\* C28: a Read or Delete right after a successful Create addresses the terminal
\* sub-resource under the scope and the name that the Create provisioned it under.
C28_SameAddressAsCreate ==
    (status = "done" /\ op \in {"Read", "Delete"} /\ AfterCreate)
        => \A j \in 1..Len(log) :
             log[j].tgt[1] = Before.terminal[1] => log[j].tgt = Before.terminal

\* C29: after a successful Create and a Delete that reported no error, with no backend
\* call failing in between, none of the sub-resources that the Create provisioned
\* remains in the backend.
C29_DeleteLeavesNoOrphans ==
    (Done("Delete") /\ AfterCreate /\ diags = << >> /\ faults = 0 /\ ops = {})
        => \A j \in 1..Len(made) : made[j] \notin world

\* C30: when an Update that follows a successful Create reports an error, with the
\* backends otherwise left alone, the sub-resource that the prior record names still
\* exists and the prior record is still stored unchanged.
C30_FailedUpdateKeepsResource ==
    (Done("Update") /\ AfterCreate /\ Last.quiet /\ diags # << >>)
        => (RecordKept /\ Before.terminal \in world)

\* the record that the Create body of the call in progress hands to State.Set
Recreated ==
    LET prog == CreateProg(kind, plan, cfg, gen)
        sets == {j \in 1..Len(prog) : prog[j].eff = "set"}
    IN  IF sets = {} THEN BaseRec ELSE prog[CHOOSE j \in sets : TRUE].rec

\* C31: after an Update that reports no error the stored record holds the name and the
\* backend tag of the new spec and, where the Update re-created the resource, the id
\* that the re-creation assigned; it is not the prior record.
C31_UpdateStoresNewSpec ==
    (Done("Update") /\ diags = << >>)
        => /\ present
           /\ record.name = plan.name /\ record.type = plan.type
           /\ kind \in ReplaceKinds => record.id = Recreated.id

\* calls by which a Create brings the shared prerequisite into existence
PrerequisiteCalls == {"dns.ManagedZones.Create", "zones.CreateOrUpdate"}

\* C32: when two Creates run at the same time for distinct resource instances that
\* share a prerequisite which does not exist yet, neither of them fails on its
\* check-then-create calls for the prerequisite, whatever the interleaving.
C32_ConcurrentCreatesPassPrerequisite ==
    /\ \A j \in 1..Len(diags) : diags[j].msg \notin PrerequisiteCalls
    /\ \A j \in 1..Len(peer.diags) : peer.diags[j].msg \notin PrerequisiteCalls

\* the host held a record when the call that has just returned began
HadRecord == Len(hist) >= 2 /\ Before.present

\* C33: a Create, Read or Delete served while the client of the selected backend is not
\* configured reports an error diagnostic, issues no backend call and leaves the record
\* as it was; a Delete in particular does not make the host drop the record.
C33_NilClientReportsError ==
    (status = "done" /\ cfg.mode = "nil")
        => /\ (op = "Create" /\ plan.type \in Supported)
                => (diags # << >> /\ log = << >> /\ ~present)
           /\ (op \in {"Read", "Delete"} /\ HadRecord /\ Before.rec.type \in Supported)
                => (diags # << >> /\ log = << >> /\ RecordKept)

\* the record type under which a call addresses a record set: what follows the last "/"
RecordTypeOf(t) ==
    LET n == t[3]
        cut == {j \in 1..Len(n) : n[j] = "/"}
        last == CHOOSE j \in cut : \A k \in cut : k <= j
    IN  IF cut = {} THEN Empty ELSE SubSeq(n, last + 1, Len(n))

\* the calls of the call being served that address a record set
RecordCalls == {j \in 1..Len(log) : log[j].tgt[1] = "rrset"}

\* C34: every record set that a Create of an abstract_dns_record sends to one of the
\* backends aws, azure and gcp carries a DNS record type, not the backend tag, and a
\* Read or Delete after that Create addresses the record under the record type that
\* the Create wrote.
C34_RecordTypeIsNotTheTag ==
    kind = "dns"
        => /\ op = "Create"
                => \A j \in RecordCalls : RecordTypeOf(log[j].tgt) \in RecordTypes
           /\ (status = "done" /\ op \in {"Read", "Delete"} /\ AfterCreate)
                => \A j \in RecordCalls :
                     RecordTypeOf(log[j].tgt) = RecordTypeOf(Before.terminal)

\* C35: a Delete of an abstract_dns_record after a successful Create asks the backend
\* to remove the record set that the Create wrote: the one of the same zone, name and
\* record type.
C35_DeleteRemovesWrittenRecordSet ==
    (kind = "dns" /\ Done("Delete") /\ AfterCreate)
        => \E j \in RecordCalls : log[j].eff = "destroy" /\ log[j].tgt = Before.terminal

\* C36: in the wait loop a status check that is followed by anything observed an
\* operation still in progress and is followed by one sleep of 5 seconds; a sleep is
\* followed by a status check; a check is made only on entering the loop or right after
\* a sleep; and after a check that failed or observed a finished operation the handler
\* is out of the loop.
C36_ChecksAlternateWithSleeps ==
    /\ Len(trail) = 2
         => \/ /\ trail[1] = Checked("running")
               /\ trail[2] = Slept(5)
            \/ /\ trail[1].ev = "sleep"
               /\ trail[2].ev = "check"
    /\ InLoop /\ sub = "poll" => (trail = << >> \/ trail[Len(trail)].ev = "sleep")
    /\ InLoop /\ sub = "sleep" => (trail # << >> /\ trail[Len(trail)] = Checked("running"))
    /\ (trail # << >> /\ trail[Len(trail)].ev = "check" /\ trail[Len(trail)].saw # "running")
         => ~InLoop

\* a loop has checked, slept and checked again, and left on a finished operation
C36_Witness ==
    /\ Len(trail) = 2 /\ trail[1].ev = "sleep" /\ trail[2] = Checked("done")
    /\ status = "running" /\ sub = "issue"

\* a Create is about to compute a name or a size that it will send to the backend
Normalizing ==
    /\ status = "running" /\ op = "Create" /\ sub = "issue"
    /\ pc <= Len(CurProg)
    /\ CurProg[pc].eff = "norm"

\* C37: a Create has issued no backend call as long as a name or a size of the spec is
\* still to be normalized.
C37_NormalizedBeforeFirstCall == Normalizing => log = << >>

====
